---------------------------- MODULE Spec2Model ----------------------------
(***************************************************************************)
(* A model of the LogFlux C SDK client (logflux_client.c /                 *)
(* logflux_client.h): the client handle and its socket, the log entry and  *)
(* its labels, the JSON encoder and the transport.                         *)
(*                                                                         *)
(* C strings are sequences of one-character strings.  A pointer is either  *)
(* NULL or the object it points to.  The operating system is the set of    *)
(* open socket descriptors; the outcome of every system call and of every  *)
(* allocation is chosen by the environment.  Signals are not modelled.     *)
(***************************************************************************)
EXTENDS Integers, Sequences, FiniteSets, TLC

VARIABLES
    client,     \* the caller's client handle: NULL or the logflux_client object
    os_open,    \* the socket descriptors the process holds open
    entries,    \* the caller's entries, in the order of the batch array
    last,       \* the most recent public call: its name, argument, result and system calls
    proc        \* "running", "blocked" while the thread is inside a system call that
                \* does not return, or "aborted" once undefined behaviour has killed
                \* the process

vars == <<client, os_open, entries, last, proc>>

-----------------------------------------------------------------------------
(* Characters and strings *)

Q == "\""
NL == "\n"
NULL == [null |-> TRUE]

Min(a, b) == IF a < b THEN a ELSE b

\* the first n characters of s (all of s when it is shorter)
Take(s, n) == SubSeq(s, 1, Min(n, Len(s)))

\* n copies of the character c
Fill(c, n) == [i \in 1..n |-> c]

Digit == <<"0", "1", "2", "3", "4", "5", "6", "7", "8", "9">>

RECURSIVE FormatNat(_)
FormatNat(n) == IF n < 10 THEN <<Digit[n + 1]>> ELSE FormatNat(n \div 10) \o <<Digit[(n % 10) + 1]>>

\* printf's %d and %ld
FormatInt(n) == IF n < 0 THEN <<"-">> \o FormatNat(-n) ELSE FormatNat(n)

\* strncpy(dst, src, n) into a zeroed buffer, read back as a C string
strncpy(src, n) == Take(src, n)

-----------------------------------------------------------------------------
(* logflux_client.h *)

LOGFLUX_LEVEL_EMERGENCY == 0
LOGFLUX_LEVEL_INFO == 6
LOGFLUX_LEVEL_DEBUG == 7

LOGFLUX_TYPE_LOG == 1
LOGFLUX_TYPE_AUDIT == 5

LOGFLUX_CONN_UNIX == 0
LOGFLUX_CONN_TCP == 1

LOGFLUX_OK == 0
LOGFLUX_ERROR_INVALID_PARAM == -1
LOGFLUX_ERROR_MEMORY == -2
LOGFLUX_ERROR_CONNECTION == -3
LOGFLUX_ERROR_TIMEOUT == -4
LOGFLUX_ERROR_FORMAT == -5
LOGFLUX_ERROR_NOT_CONNECTED == -6

\* sizeof of the character arrays of logflux_config_t
socket_path_size == 256
host_size == 256
shared_secret_size == 128

\* sizeof(addr.sun_path) of struct sockaddr_un
sun_path_size == 108

-----------------------------------------------------------------------------
(* The encoder: entry_to_json *)

buffer_size == 4096

fmt_open == <<"{", Q, "i", "d", Q, ":", Q>>
fmt_message == <<Q, ",", Q, "m", "e", "s", "s", "a", "g", "e", Q, ":", Q>>
fmt_source == <<Q, ",", Q, "s", "o", "u", "r", "c", "e", Q, ":", Q>>
fmt_entry_type == <<Q, ",", Q, "e", "n", "t", "r", "y", "_", "t", "y", "p", "e", Q, ":">>
fmt_level == <<",", Q, "l", "e", "v", "e", "l", Q, ":">>
fmt_timestamp == <<",", Q, "t", "i", "m", "e", "s", "t", "a", "m", "p", Q, ":">>
fmt_secret == <<",", Q, "s", "h", "a", "r", "e", "d", "_", "s", "e", "c", "r", "e", "t", Q, ":", Q>>
fmt_labels == <<",", Q, "l", "a", "b", "e", "l", "s", Q, ":", "{">>
fmt_kv_mid == <<Q, ":", Q>>

\* The buffer while entry_to_json fills it: buf is the C string the buffer
\* holds, len the running sum of snprintf's return values, oob whether a
\* call was made with json + len beyond the buffer (buffer_size - len then
\* wraps around as a size_t and the write lands outside the buffer).
\* snprintf(json + len, buffer_size - len, text) writes at most
\* buffer_size - len - 1 characters and returns the length of text.
snprintf(st, text) ==
    [buf |-> IF st.len < buffer_size
             THEN Take(st.buf, st.len) \o Take(text, buffer_size - st.len - 1)
             ELSE st.buf,
     len |-> st.len + Len(text),
     oob |-> st.oob \/ st.len > buffer_size]

\* "\"%s\":\"%s\"" of label i
fmt_label(entry, i) ==
    <<Q>> \o entry.labels.keys[i] \o fmt_kv_mid \o entry.labels.values[i] \o <<Q>>

\* the body of the for loop over the labels, from label i on
RECURSIVE labels_loop(_, _, _)
labels_loop(st, entry, i) ==
    IF i > entry.labels.count THEN st
    ELSE LET sep == IF i > 1 THEN snprintf(st, <<",">>) ELSE st
         IN  labels_loop(snprintf(sep, fmt_label(entry, i)), entry, i + 1)

\* the first snprintf: the six fixed fields
fmt_fields(entry) ==
    fmt_open \o entry.id \o fmt_message \o entry.message \o fmt_source \o entry.source
    \o fmt_entry_type \o FormatInt(entry.type) \o fmt_level \o FormatInt(entry.level)
    \o fmt_timestamp \o FormatInt(entry.timestamp)

\* entry_to_json(entry, shared_secret) with malloc's outcome: NULL, or the
\* returned C string and whether a write outside the buffer was made
entry_to_json(entry, shared_secret, malloc_ok) ==
    IF ~malloc_ok THEN NULL
    ELSE LET s0 == snprintf([buf |-> <<>>, len |-> 0, oob |-> FALSE], fmt_fields(entry))
             s1 == IF shared_secret # NULL /\ Len(shared_secret.str) > 0
                   THEN snprintf(s0, fmt_secret \o shared_secret.str \o <<Q>>)
                   ELSE s0
             s2 == IF entry.labels.count > 0
                   THEN snprintf(labels_loop(snprintf(s1, fmt_labels), entry, 1), <<"}">>)
                   ELSE s1
             s3 == snprintf(s2, <<"}">>)
         IN  [str |-> s3.buf, oob |-> s3.oob]

-----------------------------------------------------------------------------
(* The environment *)

path_agent == <<"/", "t", "m", "p", "/", "a", "g", "e", "n", "t", ".", "s", "o", "c", "k">>
path_none == <<"/", "t", "m", "p", "/", "t", "e", "s", "t", ".", "s", "o", "c", "k">>
host_lo == <<"1", "2", "7", ".", "0", ".", "0", ".", "1">>
host_name == <<"n", "o", "t", "-", "a", "n", "-", "i", "p">>
host_256 == <<"1", "0", ".", "0", ".", "0", ".", "2", "5", "6">>
secret_s3 == <<"s", "3">>

\* the collector listens on one Unix path and on one TCP endpoint
ListeningPaths == {path_agent}
ListeningTcp == {<<host_lo, 8080>>}

\* A system call of the library, as the kernel sees it.  data holds the bytes
\* of a send, the <<tv_sec, tv_usec>> of a setsockopt, the address of a connect.
Ev(call, fd, data, ret) == [call |-> call, fd |-> fd, data |-> data, ret |-> ret]

\* socket() returns the lowest descriptor that is not open (0, 1, 2 are taken)
NewFd(open) == CHOOSE n \in 3..(3 + Cardinality(open)) :
                   n \notin open /\ \A m \in 3..(n - 1) : m \in open

\* inet_pton(AF_INET, host): 1 when host is four decimal numbers 0..255
\* separated by dots, each of one to three digits without a leading zero
DigitVal(c) == CHOOSE d \in 0..9 : Digit[d + 1] = c

IsDigit(c) == \E d \in 1..10 : Digit[d] = c

\* the octets of host[i..], or <<-1>> when the text is no dotted quad;
\* cur is the octet being read, -1 before its first digit
RECURSIVE inet_pton4(_, _, _, _)
inet_pton4(host, i, cur, octets) ==
    IF i > Len(host)
    THEN IF cur >= 0 /\ Len(octets) = 3 THEN Append(octets, cur) ELSE <<-1>>
    ELSE IF IsDigit(host[i])
    THEN LET new == IF cur < 0 THEN DigitVal(host[i]) ELSE cur * 10 + DigitVal(host[i])
         IN  IF cur = 0 \/ new > 255 THEN <<-1>>
             ELSE inet_pton4(host, i + 1, new, octets)
    ELSE IF host[i] = "." /\ cur >= 0 /\ Len(octets) < 3
    THEN inet_pton4(host, i + 1, -1, Append(octets, cur))
    ELSE <<-1>>

inet_pton(host) == IF inet_pton4(host, 1, -1, <<>>) = <<-1>> THEN 0 ELSE 1

-----------------------------------------------------------------------------
(* Client functions *)

Config(type, path, host, port, secret, timeout_ms, retry_count, retry_delay_ms) ==
    [connection_type |-> type, socket_path |-> path, host |-> host, port |-> port,
     shared_secret |-> secret, timeout_ms |-> timeout_ms,
     retry_count |-> retry_count, retry_delay_ms |-> retry_delay_ms]

\* fgets(secret, size, file): the first line of the file with its newline, at
\* most size - 1 characters; NULL at end of file
RECURSIVE first_line(_, _)
first_line(content, i) ==
    IF i > Len(content) THEN content
    ELSE IF content[i] = NL THEN SubSeq(content, 1, i)
    ELSE first_line(content, i + 1)

fgets(size, content) ==
    IF Len(content) = 0 THEN NULL ELSE [str |-> Take(first_line(content, 1), size - 1)]

\* logflux_load_shared_secret that reports Format when the file cannot be
\* opened
load_shared_secret_format_on_open(secret, size, file) ==
    IF secret = NULL \/ size = 0
    THEN [result |-> LOGFLUX_ERROR_INVALID_PARAM, secret |-> secret]
    ELSE LET line == IF file = NULL THEN NULL ELSE fgets(size, file.str)
         IN  IF line = NULL
             THEN [result |-> LOGFLUX_ERROR_FORMAT, secret |-> secret]
             ELSE LET len == Len(line.str)
                  IN  [result |-> LOGFLUX_OK,
                       secret |-> [str |-> IF len > 0 /\ line.str[len] = NL
                                           THEN SubSeq(line.str, 1, len - 1)
                                           ELSE line.str]]

\* logflux_load_shared_secret(secret, size) where the file at the selected
\* path is file (NULL when it cannot be opened) and the buffer holds the C
\* string secret before the call: the result and the buffer afterwards
logflux_load_shared_secret(secret, size, file) ==
    IF secret = NULL \/ size = 0
    THEN [result |-> LOGFLUX_ERROR_INVALID_PARAM, secret |-> secret]
    ELSE IF file = NULL
    THEN [result |-> LOGFLUX_ERROR_CONNECTION, secret |-> secret]
    ELSE LET line == fgets(size, file.str)
         IN  IF line = NULL
             THEN [result |-> LOGFLUX_ERROR_FORMAT, secret |-> secret]
             ELSE LET len == Len(line.str)
                  IN  [result |-> LOGFLUX_OK,
                       secret |-> [str |-> IF len > 0 /\ line.str[len] = NL
                                           THEN SubSeq(line.str, 1, len - 1)
                                           ELSE line.str]]

logflux_client_new_unix(socket_path, calloc_ok) ==
    IF socket_path = NULL THEN NULL
    ELSE IF ~calloc_ok THEN NULL
    ELSE [config |-> Config(LOGFLUX_CONN_UNIX, strncpy(socket_path.str, socket_path_size - 1),
                            <<>>, 0, <<>>, 10000, 3, 1000),
          socket_fd |-> -1,
          connected |-> FALSE]

\* logflux_client_new_tcp that gives up when the secret cannot be loaded
new_tcp_requires_secret(host, port, calloc_ok, file) ==
    IF host = NULL \/ port = 0 THEN NULL
    ELSE IF ~calloc_ok THEN NULL
    ELSE IF logflux_load_shared_secret([str |-> <<>>], shared_secret_size, file).result
                # LOGFLUX_OK
    THEN NULL
    ELSE [config |-> Config(LOGFLUX_CONN_TCP, <<>>, strncpy(host.str, host_size - 1), port,
                            logflux_load_shared_secret([str |-> <<>>], shared_secret_size,
                                                       file).secret.str,
                            10000, 3, 1000),
          socket_fd |-> -1,
          connected |-> FALSE]

logflux_client_new_tcp(host, port, calloc_ok, file) ==
    IF host = NULL \/ port = 0 THEN NULL
    ELSE IF ~calloc_ok THEN NULL
    ELSE [config |-> Config(LOGFLUX_CONN_TCP, <<>>, strncpy(host.str, host_size - 1), port,
                            logflux_load_shared_secret([str |-> <<>>], shared_secret_size,
                                                       file).secret.str,
                            10000, 3, 1000),
          socket_fd |-> -1,
          connected |-> FALSE]

logflux_client_new_config(config, calloc_ok) ==
    IF config = NULL THEN NULL
    ELSE IF ~calloc_ok THEN NULL
    ELSE [config |-> config.cfg, socket_fd |-> -1, connected |-> FALSE]

\* set_socket_timeout(fd, timeout_ms); env names the system call that fails
set_socket_timeout(fd, timeout_ms, env) ==
    LET tv == <<timeout_ms \div 1000, (timeout_ms % 1000) * 1000>>
        rcv == Ev("setsockopt SO_RCVTIMEO", fd, tv, IF env = "rcvtimeo" THEN -1 ELSE 0)
        snd == Ev("setsockopt SO_SNDTIMEO", fd, tv, IF env = "sndtimeo" THEN -1 ELSE 0)
    IN  IF rcv.ret < 0 THEN [result |-> LOGFLUX_ERROR_TIMEOUT, sys |-> <<rcv>>]
        ELSE IF snd.ret < 0 THEN [result |-> LOGFLUX_ERROR_TIMEOUT, sys |-> <<rcv, snd>>]
        ELSE [result |-> LOGFLUX_OK, sys |-> <<rcv, snd>>]

\* A failure exit of connect_*_socket that forgets the socket without closing it
connect_failed_without_close(c, open, fd, sys, result) ==
    [client |-> [c EXCEPT !.socket_fd = -1], open |-> open \cup {fd}, result |-> result,
     sys |-> sys]

\* A failure exit of connect_*_socket: close(client->socket_fd), socket_fd = -1
connect_failed(c, open, fd, sys, result) ==
    [client |-> [c EXCEPT !.socket_fd = -1], open |-> open, result |-> result,
     sys |-> Append(sys, Ev("close", fd, <<>>, 0))]

\* connect_unix_socket that accepts a path of exactly sizeof(addr.sun_path)
\* characters
connect_unix_path_off_by_one(c, open, env) ==
    IF env = "socket"
    THEN [client |-> [c EXCEPT !.socket_fd = -1], open |-> open,
          result |-> LOGFLUX_ERROR_CONNECTION, sys |-> <<Ev("socket AF_UNIX", -1, <<>>, -1)>>]
    ELSE LET fd == NewFd(open)
             s1 == <<Ev("socket AF_UNIX", -1, <<>>, fd)>>
             to == set_socket_timeout(fd, c.config.timeout_ms, env)
             s2 == s1 \o to.sys
             path_len == Len(c.config.socket_path)
             ok == env = "ok" /\ c.config.socket_path \in ListeningPaths
             s3 == Append(s2, Ev("connect", fd, c.config.socket_path, IF ok THEN 0 ELSE -1))
         IN  IF to.result # LOGFLUX_OK
             THEN connect_failed(c, open, fd, s2, LOGFLUX_ERROR_TIMEOUT)
             ELSE IF path_len > sun_path_size
             THEN connect_failed(c, open, fd, s2, LOGFLUX_ERROR_INVALID_PARAM)
             ELSE IF ~ok
             THEN connect_failed(c, open, fd, s3, LOGFLUX_ERROR_CONNECTION)
             ELSE [client |-> [c EXCEPT !.socket_fd = fd], open |-> open \cup {fd},
                   result |-> LOGFLUX_OK, sys |-> s3]

\* connect_unix_socket(client) with the descriptors open before the call; env
\* names the system call that fails ("ok": none fails by itself, and connect()
\* succeeds exactly when the collector listens at the path)
connect_unix_socket(c, open, env) ==
    IF env = "socket"
    THEN [client |-> [c EXCEPT !.socket_fd = -1], open |-> open,
          result |-> LOGFLUX_ERROR_CONNECTION, sys |-> <<Ev("socket AF_UNIX", -1, <<>>, -1)>>]
    ELSE LET fd == NewFd(open)
             s1 == <<Ev("socket AF_UNIX", -1, <<>>, fd)>>
             to == set_socket_timeout(fd, c.config.timeout_ms, env)
             s2 == s1 \o to.sys
             path_len == Len(c.config.socket_path)
             ok == env = "ok" /\ c.config.socket_path \in ListeningPaths
             s3 == Append(s2, Ev("connect", fd, c.config.socket_path, IF ok THEN 0 ELSE -1))
         IN  IF to.result # LOGFLUX_OK
             THEN connect_failed(c, open, fd, s2, LOGFLUX_ERROR_TIMEOUT)
             ELSE IF path_len >= sun_path_size
             THEN connect_failed(c, open, fd, s2, LOGFLUX_ERROR_INVALID_PARAM)
             ELSE IF ~ok
             THEN connect_failed(c, open, fd, s3, LOGFLUX_ERROR_CONNECTION)
             ELSE [client |-> [c EXCEPT !.socket_fd = fd], open |-> open \cup {fd},
                   result |-> LOGFLUX_OK, sys |-> s3]

\* connect_tcp_socket that hands the host to connect() without parsing it
connect_tcp_without_parse(c, open, env) ==
    IF env = "socket"
    THEN [client |-> [c EXCEPT !.socket_fd = -1], open |-> open,
          result |-> LOGFLUX_ERROR_CONNECTION, sys |-> <<Ev("socket AF_INET", -1, <<>>, -1)>>]
    ELSE LET fd == NewFd(open)
             s1 == <<Ev("socket AF_INET", -1, <<>>, fd)>>
             to == set_socket_timeout(fd, c.config.timeout_ms, env)
             s2 == s1 \o to.sys
             addr == <<c.config.host, c.config.port>>
             ok == env = "ok" /\ addr \in ListeningTcp
             s3 == Append(s2, Ev("connect", fd, addr, IF ok THEN 0 ELSE -1))
         IN  IF to.result # LOGFLUX_OK
             THEN connect_failed(c, open, fd, s2, LOGFLUX_ERROR_TIMEOUT)
             ELSE IF ~ok
             THEN connect_failed(c, open, fd, s3, LOGFLUX_ERROR_CONNECTION)
             ELSE [client |-> [c EXCEPT !.socket_fd = fd], open |-> open \cup {fd},
                   result |-> LOGFLUX_OK, sys |-> s3]

connect_tcp_socket(c, open, env) ==
    IF env = "socket"
    THEN [client |-> [c EXCEPT !.socket_fd = -1], open |-> open,
          result |-> LOGFLUX_ERROR_CONNECTION, sys |-> <<Ev("socket AF_INET", -1, <<>>, -1)>>]
    ELSE LET fd == NewFd(open)
             s1 == <<Ev("socket AF_INET", -1, <<>>, fd)>>
             to == set_socket_timeout(fd, c.config.timeout_ms, env)
             s2 == s1 \o to.sys
             addr == <<c.config.host, c.config.port>>
             ok == env = "ok" /\ addr \in ListeningTcp
             s3 == Append(s2, Ev("connect", fd, addr, IF ok THEN 0 ELSE -1))
         IN  IF to.result # LOGFLUX_OK
             THEN connect_failed(c, open, fd, s2, LOGFLUX_ERROR_TIMEOUT)
             ELSE IF inet_pton(c.config.host) <= 0
             THEN connect_failed(c, open, fd, s2, LOGFLUX_ERROR_CONNECTION)
             ELSE IF ~ok
             THEN connect_failed(c, open, fd, s3, LOGFLUX_ERROR_CONNECTION)
             ELSE [client |-> [c EXCEPT !.socket_fd = fd], open |-> open \cup {fd},
                   result |-> LOGFLUX_OK, sys |-> s3]

\* logflux_client_connect that repeats a failed attempt once when the
\* configuration asks for retries
connect_with_retry(c, open, env) ==
    IF c = NULL
    THEN [client |-> c, open |-> open, result |-> LOGFLUX_ERROR_INVALID_PARAM, sys |-> <<>>]
    ELSE IF c.connected
    THEN [client |-> c, open |-> open, result |-> LOGFLUX_OK, sys |-> <<>>]
    ELSE LET r == IF c.config.connection_type = LOGFLUX_CONN_UNIX
                  THEN connect_unix_socket(c, open, env)
                  ELSE connect_tcp_socket(c, open, env)
         IN  IF r.result = LOGFLUX_OK
             THEN [r EXCEPT !.client.connected = TRUE]
             ELSE IF c.config.retry_count > 0
             THEN [r EXCEPT !.sys = r.sys \o r.sys]
             ELSE r

\* logflux_client_connect that marks the client connected whatever the
\* transport's connect returned
connect_marks_always(c, open, env) ==
    IF c = NULL
    THEN [client |-> c, open |-> open, result |-> LOGFLUX_ERROR_INVALID_PARAM, sys |-> <<>>]
    ELSE IF c.connected
    THEN [client |-> c, open |-> open, result |-> LOGFLUX_OK, sys |-> <<>>]
    ELSE LET r == IF c.config.connection_type = LOGFLUX_CONN_UNIX
                  THEN connect_unix_socket(c, open, env)
                  ELSE connect_tcp_socket(c, open, env)
         IN  [r EXCEPT !.client.connected = TRUE]

\* logflux_client_connect without the early return for a connected client
connect_without_early_return(c, open, env) ==
    IF c = NULL
    THEN [client |-> c, open |-> open, result |-> LOGFLUX_ERROR_INVALID_PARAM, sys |-> <<>>]
    ELSE LET r == IF c.config.connection_type = LOGFLUX_CONN_UNIX
                  THEN connect_unix_socket(c, open, env)
                  ELSE connect_tcp_socket(c, open, env)
         IN  IF r.result = LOGFLUX_OK
             THEN [r EXCEPT !.client.connected = TRUE]
             ELSE r

logflux_client_connect(c, open, env) ==
    IF c = NULL
    THEN [client |-> c, open |-> open, result |-> LOGFLUX_ERROR_INVALID_PARAM, sys |-> <<>>]
    ELSE IF c.connected
    THEN [client |-> c, open |-> open, result |-> LOGFLUX_OK, sys |-> <<>>]
    ELSE LET r == IF c.config.connection_type = LOGFLUX_CONN_UNIX
                  THEN connect_unix_socket(c, open, env)
                  ELSE connect_tcp_socket(c, open, env)
         IN  IF r.result = LOGFLUX_OK
             THEN [r EXCEPT !.client.connected = TRUE]
             ELSE r

logflux_client_is_connected(c) == c # NULL /\ c.connected /\ c.socket_fd >= 0

\* logflux_client_close that closes the socket and keeps the connected flag
close_keeps_connected(c, open) ==
    IF c = NULL
    THEN [client |-> c, open |-> open, result |-> LOGFLUX_ERROR_INVALID_PARAM, sys |-> <<>>]
    ELSE IF c.socket_fd >= 0
    THEN [client |-> [c EXCEPT !.socket_fd = -1],
          open |-> open \ {c.socket_fd}, result |-> LOGFLUX_OK,
          sys |-> <<Ev("close", c.socket_fd, <<>>, 0)>>]
    ELSE [client |-> c, open |-> open, result |-> LOGFLUX_OK, sys |-> <<>>]

\* logflux_client_close that reports success for an absent client as well
close_accepts_absent_client(c, open) ==
    IF c = NULL
    THEN [client |-> c, open |-> open, result |-> LOGFLUX_OK, sys |-> <<>>]
    ELSE IF c.socket_fd >= 0
    THEN [client |-> [c EXCEPT !.socket_fd = -1, !.connected = FALSE],
          open |-> open \ {c.socket_fd}, result |-> LOGFLUX_OK,
          sys |-> <<Ev("close", c.socket_fd, <<>>, 0)>>]
    ELSE [client |-> [c EXCEPT !.connected = FALSE], open |-> open,
          result |-> LOGFLUX_OK, sys |-> <<>>]

logflux_client_close(c, open) ==
    IF c = NULL
    THEN [client |-> c, open |-> open, result |-> LOGFLUX_ERROR_INVALID_PARAM, sys |-> <<>>]
    ELSE IF c.socket_fd >= 0
    THEN [client |-> [c EXCEPT !.socket_fd = -1, !.connected = FALSE],
          open |-> open \ {c.socket_fd}, result |-> LOGFLUX_OK,
          sys |-> <<Ev("close", c.socket_fd, <<>>, 0)>>]
    ELSE [client |-> [c EXCEPT !.connected = FALSE], open |-> open,
          result |-> LOGFLUX_OK, sys |-> <<>>]

\* logflux_client_free that releases the client without closing its socket
free_without_close(c, open) ==
    [client |-> NULL, open |-> open, result |-> 0, sys |-> <<>>]

\* logflux_client_free(client): the handle is gone afterwards
logflux_client_free(c, open) ==
    IF c # NULL
    THEN [logflux_client_close(c, open) EXCEPT !.client = NULL]
    ELSE [client |-> c, open |-> open, result |-> 0, sys |-> <<>>]

\* logflux_error_string without the case of the last error kind
error_string_without_last_case(error) ==
    CASE error = LOGFLUX_OK -> "Success"
      [] error = LOGFLUX_ERROR_INVALID_PARAM -> "Invalid parameter"
      [] error = LOGFLUX_ERROR_MEMORY -> "Memory allocation error"
      [] error = LOGFLUX_ERROR_CONNECTION -> "Connection error"
      [] error = LOGFLUX_ERROR_TIMEOUT -> "Timeout"
      [] error = LOGFLUX_ERROR_FORMAT -> "Format error"
      [] OTHER -> "Unknown error"

logflux_error_string(error) ==
    CASE error = LOGFLUX_OK -> "Success"
      [] error = LOGFLUX_ERROR_INVALID_PARAM -> "Invalid parameter"
      [] error = LOGFLUX_ERROR_MEMORY -> "Memory allocation error"
      [] error = LOGFLUX_ERROR_CONNECTION -> "Connection error"
      [] error = LOGFLUX_ERROR_TIMEOUT -> "Timeout"
      [] error = LOGFLUX_ERROR_FORMAT -> "Format error"
      [] error = LOGFLUX_ERROR_NOT_CONNECTED -> "Not connected"
      [] OTHER -> "Unknown error"

-----------------------------------------------------------------------------
(* Log entry functions *)

default_source == <<"c", "-", "s", "d", "k">>

\* the blocks logflux_entry_free(entry) releases: the strings that are
\* present, the label copies and arrays, and the entry itself
entry_free_blocks(blocks) == blocks

\* the blocks logflux_entry_new(message) has allocated and not released when
\* it returns: the entry and its three strings on success; on a failed
\* allocation the others are handed to logflux_entry_free
entry_new_live(message, env) ==
    IF message = NULL \/ env = "entry" THEN {}
    ELSE LET blocks == {"entry", "id", "message", "source"} \ {env}
         IN  IF env \in {"id", "message", "source"}
             THEN blocks \ entry_free_blocks(blocks)
             ELSE blocks

\* logflux_entry_new that returns the entry although generate_uuid failed
entry_new_without_id_check(message, uuid, now, env) ==
    IF message = NULL THEN NULL
    ELSE IF env = "entry" THEN NULL
    ELSE IF env \in {"message", "source"} THEN NULL
    ELSE [id |-> IF env = "id" THEN NULL ELSE uuid, message |-> message.str,
          source |-> default_source,
          level |-> LOGFLUX_LEVEL_INFO, type |-> LOGFLUX_TYPE_LOG, timestamp |-> now,
          labels |-> [keys |-> <<>>, values |-> <<>>, count |-> 0, capacity |-> 0,
                      keys_freed |-> FALSE, values_freed |-> FALSE]]

\* logflux_entry_new(message); uuid is what generate_uuid() renders, now is
\* time(NULL), env names the allocation that fails: the entry itself
\* (calloc), its id, its message or its source, or "ok"
logflux_entry_new(message, uuid, now, env) ==
    IF message = NULL THEN NULL
    ELSE IF env = "entry" THEN NULL
    ELSE IF env \in {"id", "message", "source"} THEN NULL
    ELSE [id |-> uuid, message |-> message.str, source |-> default_source,
          level |-> LOGFLUX_LEVEL_INFO, type |-> LOGFLUX_TYPE_LOG, timestamp |-> now,
          labels |-> [keys |-> <<>>, values |-> <<>>, count |-> 0, capacity |-> 0,
                      keys_freed |-> FALSE, values_freed |-> FALSE]]

\* logflux_entry_set_level without the upper range check
set_level_without_upper_check(entry, level) ==
    IF entry = NULL \/ level < LOGFLUX_LEVEL_EMERGENCY
    THEN [entry |-> entry, result |-> LOGFLUX_ERROR_INVALID_PARAM]
    ELSE [entry |-> [entry EXCEPT !.level = level], result |-> LOGFLUX_OK]

logflux_entry_set_level(entry, level) ==
    IF entry = NULL \/ level < LOGFLUX_LEVEL_EMERGENCY \/ level > LOGFLUX_LEVEL_DEBUG
    THEN [entry |-> entry, result |-> LOGFLUX_ERROR_INVALID_PARAM]
    ELSE [entry |-> [entry EXCEPT !.level = level], result |-> LOGFLUX_OK]

logflux_entry_set_type(entry, type) ==
    IF entry = NULL \/ type < LOGFLUX_TYPE_LOG \/ type > LOGFLUX_TYPE_AUDIT
    THEN [entry |-> entry, result |-> LOGFLUX_ERROR_INVALID_PARAM]
    ELSE [entry |-> [entry EXCEPT !.type = type], result |-> LOGFLUX_OK]

\* env: "ok", or "new_source" when strdup fails
logflux_entry_set_source(entry, source, env) ==
    IF entry = NULL \/ source = NULL
    THEN [entry |-> entry, result |-> LOGFLUX_ERROR_INVALID_PARAM]
    ELSE IF env = "new_source"
    THEN [entry |-> entry, result |-> LOGFLUX_ERROR_MEMORY]
    ELSE [entry |-> [entry EXCEPT !.source = source.str], result |-> LOGFLUX_OK]

logflux_entry_set_timestamp(entry, timestamp) ==
    IF entry = NULL
    THEN [entry |-> entry, result |-> LOGFLUX_ERROR_INVALID_PARAM]
    ELSE [entry |-> [entry EXCEPT !.timestamp = timestamp], result |-> LOGFLUX_OK]

\* logflux_entry_add_label(entry, key, value); env names the allocation that
\* fails: "new_keys" or "new_values" (the two realloc calls), "key_copy" or
\* "value_copy" (the two strdup calls), or "ok".  When one realloc fails and
\* the other has succeeded, the array that was grown is released although the
\* entry still points to it (keys_freed, values_freed).
logflux_entry_add_label(entry, key, value, env) ==
    IF entry = NULL \/ key = NULL \/ value = NULL
    THEN [entry |-> entry, result |-> LOGFLUX_ERROR_INVALID_PARAM]
    ELSE LET l == entry.labels
             grow == l.count >= l.capacity
             new_capacity == IF l.capacity = 0 THEN 4 ELSE l.capacity * 2
             grown == IF grow THEN [l EXCEPT !.capacity = new_capacity] ELSE l
         IN  IF grow /\ env = "new_keys"
             THEN [entry |-> [entry EXCEPT !.labels.values_freed = l.capacity > 0],
                   result |-> LOGFLUX_ERROR_MEMORY]
             ELSE IF grow /\ env = "new_values"
             THEN [entry |-> [entry EXCEPT !.labels.keys_freed = l.capacity > 0],
                   result |-> LOGFLUX_ERROR_MEMORY]
             ELSE IF env \in {"key_copy", "value_copy"}
             THEN [entry |-> [entry EXCEPT !.labels = grown],
                   result |-> LOGFLUX_ERROR_MEMORY]
             ELSE [entry |-> [entry EXCEPT !.labels =
                                 [grown EXCEPT !.keys = Append(l.keys, key.str),
                                               !.values = Append(l.values, value.str),
                                               !.count = l.count + 1]],
                   result |-> LOGFLUX_OK]

-----------------------------------------------------------------------------
(* Sending *)

\* What one call of a send function did: its result, its system calls,
\* whether an allocation failed, and whether the process was killed by a
\* write outside the encoder's buffer before the call returned.
Outcome(result, sys, oom, aborted) ==
    [result |-> result, sys |-> sys, oom |-> oom, aborted |-> aborted]

\* send_json_data that writes the remaining bytes after a short write and
\* then reports success
send_json_data_with_resume(c, json, env) ==
    LET json_len == Len(json)
        total_len == json_len + 1
        data == json \o <<NL>>
        sent == CASE env = "send_error" -> -1
                  [] env = "short_1" -> 1
                  [] env = "short_most" -> total_len - 1
                  [] OTHER -> total_len
    IN  IF env = "data_malloc"
        THEN Outcome(LOGFLUX_ERROR_MEMORY, <<>>, TRUE, FALSE)
        ELSE IF sent < 0
        THEN Outcome(LOGFLUX_ERROR_CONNECTION, <<Ev("send", c.socket_fd, data, sent)>>,
                     FALSE, FALSE)
        ELSE IF sent # total_len
        THEN Outcome(LOGFLUX_OK,
                     <<Ev("send", c.socket_fd, data, sent),
                       Ev("send", c.socket_fd, SubSeq(data, sent + 1, total_len),
                          total_len - sent)>>,
                     FALSE, FALSE)
        ELSE Outcome(LOGFLUX_OK, <<Ev("send", c.socket_fd, data, sent)>>, FALSE, FALSE)

\* send_json_data(client, json); env: "data_malloc" when malloc fails,
\* "send_error" when send() returns -1, "short_1" and "short_most" when it
\* accepts 1 byte and all but 1 byte, otherwise it accepts every byte
send_json_data(c, json, env) ==
    LET json_len == Len(json)
        total_len == json_len + 1
        data == json \o <<NL>>
        sent == CASE env = "send_error" -> -1
                  [] env = "short_1" -> 1
                  [] env = "short_most" -> total_len - 1
                  [] OTHER -> total_len
    IN  IF env = "data_malloc"
        THEN Outcome(LOGFLUX_ERROR_MEMORY, <<>>, TRUE, FALSE)
        ELSE IF sent < 0 \/ sent # total_len
        THEN Outcome(LOGFLUX_ERROR_CONNECTION, <<Ev("send", c.socket_fd, data, sent)>>,
                     FALSE, FALSE)
        ELSE Outcome(LOGFLUX_OK, <<Ev("send", c.socket_fd, data, sent)>>, FALSE, FALSE)

\* logflux_client_send_entry without the check of client->connected
send_entry_without_connected_check(c, entry, env) ==
    IF c = NULL \/ entry = NULL
    THEN Outcome(LOGFLUX_ERROR_INVALID_PARAM, <<>>, FALSE, FALSE)
    ELSE LET shared_secret == IF c.config.connection_type = LOGFLUX_CONN_TCP
                              THEN [str |-> c.config.shared_secret]
                              ELSE NULL
             json == entry_to_json(entry, shared_secret, env # "json_malloc")
         IN  IF json = NULL
             THEN Outcome(LOGFLUX_ERROR_MEMORY, <<>>, TRUE, FALSE)
             ELSE IF json.oob /\ env = "abort"
             THEN Outcome(LOGFLUX_OK, <<>>, FALSE, TRUE)
             ELSE send_json_data(c, json.str, env)

\* logflux_client_send_entry(client, entry); env as for send_json_data, or
\* "json_malloc" when the encoder's malloc fails, or "abort" when a write
\* outside the encoder's buffer, if one is made, kills the process
logflux_client_send_entry(c, entry, env) ==
    IF c = NULL \/ entry = NULL
    THEN Outcome(LOGFLUX_ERROR_INVALID_PARAM, <<>>, FALSE, FALSE)
    ELSE IF ~c.connected
    THEN Outcome(LOGFLUX_ERROR_NOT_CONNECTED, <<>>, FALSE, FALSE)
    ELSE LET shared_secret == IF c.config.connection_type = LOGFLUX_CONN_TCP
                              THEN [str |-> c.config.shared_secret]
                              ELSE NULL
             json == entry_to_json(entry, shared_secret, env # "json_malloc")
         IN  IF json = NULL
             THEN Outcome(LOGFLUX_ERROR_MEMORY, <<>>, TRUE, FALSE)
             ELSE IF json.oob /\ env = "abort"
             THEN Outcome(LOGFLUX_OK, <<>>, FALSE, TRUE)
             ELSE send_json_data(c, json.str, env)

\* logflux_client_send_log(client, message): a temporary entry is made, sent
\* and freed
logflux_client_send_log(c, message, uuid, now, alloc_env, env) ==
    IF c = NULL \/ message = NULL
    THEN Outcome(LOGFLUX_ERROR_INVALID_PARAM, <<>>, FALSE, FALSE)
    ELSE LET entry == logflux_entry_new(message, uuid, now, alloc_env)
         IN  IF entry = NULL
             THEN Outcome(LOGFLUX_ERROR_MEMORY, <<>>, TRUE, FALSE)
             ELSE logflux_client_send_entry(c, entry, env)

\* the loop of logflux_client_send_batch without the return at a failed send:
\* the later entries are sent as well and the first failure is returned
RECURSIVE batch_loop_without_stop(_, _, _, _, _)
batch_loop_without_stop(c, array, count, envs, i) ==
    IF i > count THEN Outcome(LOGFLUX_OK, <<>>, FALSE, FALSE)
    ELSE LET r == logflux_client_send_entry(c, array[i], envs[i])
             rest == batch_loop_without_stop(c, array, count, envs, i + 1)
         IN  IF r.aborted THEN r
             ELSE IF r.result # LOGFLUX_OK
             THEN [r EXCEPT !.sys = r.sys \o rest.sys]
             ELSE [rest EXCEPT !.sys = r.sys \o rest.sys]

\* the for loop of logflux_client_send_batch from index i on (1-based);
\* envs[i] is the environment of the send of entry i
RECURSIVE send_batch_loop(_, _, _, _, _)
send_batch_loop(c, array, count, envs, i) ==
    IF i > count THEN Outcome(LOGFLUX_OK, <<>>, FALSE, FALSE)
    ELSE LET r == logflux_client_send_entry(c, array[i], envs[i])
         IN  IF r.aborted \/ r.result # LOGFLUX_OK THEN r
             ELSE LET rest == send_batch_loop(c, array, count, envs, i + 1)
                  IN  [rest EXCEPT !.sys = r.sys \o rest.sys]

\* logflux_client_send_batch(client, entries, count): array is NULL or the
\* caller's array
logflux_client_send_batch(c, array, count, envs) ==
    IF c = NULL \/ array = NULL \/ count = 0
    THEN Outcome(LOGFLUX_ERROR_INVALID_PARAM, <<>>, FALSE, FALSE)
    ELSE IF ~c.connected
    THEN Outcome(LOGFLUX_ERROR_NOT_CONNECTED, <<>>, FALSE, FALSE)
    ELSE send_batch_loop(c, array.arr, count, envs, 1)

-----------------------------------------------------------------------------
(* Bounds and inputs *)

\* the largest batch array
MaxBatch == 2
\* the most labels of the entry of SpecEntry
MaxLabels == 2

uuid_a == <<"a", "b", "a", "b", "a", "b", "a", "b", "-", "a", "b", "a", "b", "-",
            "a", "b", "a", "b", "-", "a", "b", "a", "b", "-",
            "a", "b", "a", "b", "a", "b", "a", "b", "a", "b", "a", "b">>

Str(s) == [str |-> s]

msg_hi == <<"h", "i">>
\* a message longer than the encoder's buffer
msg_big == Fill("x", buffer_size)
\* the message with which a new entry's six fixed fields take buffer_size
\* characters, one more than the buffer holds beside the terminator
msg_fit == Fill("x", buffer_size - 122)

path_107 == <<"/">> \o Fill("p", sun_path_size - 2)
path_108 == <<"/">> \o Fill("p", sun_path_size - 1)

cfg_unix == Config(LOGFLUX_CONN_UNIX, path_agent, <<>>, 0, secret_s3, 5000, 5, 2000)
cfg_tcp == Config(LOGFLUX_CONN_TCP, <<>>, host_lo, 8080, <<>>, 0, 0, 0)

Paths == {NULL, Str(path_agent), Str(path_none), Str(path_107), Str(path_108)}
Hosts == {NULL, Str(host_lo), Str(host_name), Str(host_256)}
Ports == {0, 8080}
SecretFiles == {NULL, Str(<<>>), Str(secret_s3 \o <<NL>>)}
Configs == {NULL, [cfg |-> cfg_unix], [cfg |-> cfg_tcp]}
Messages == {NULL, Str(msg_hi), Str(msg_big)}
Clock == {1700000000}

ConnEnvs == {"ok", "socket", "rcvtimeo", "sndtimeo", "connect"}
SendEnvs == {"ok", "json_malloc", "data_malloc", "send_error", "short_1", "short_most", "abort"}
\* send_log: the allocation that fails in entry_new, then the send's environment
SendLogEnvs == {<<"message", "ok">>} \cup {<<"ok", env>> : env \in SendEnvs}
\* send_batch over n entries: the send that goes wrong and how (the loop ends
\* there, so the environment of the later sends is never consulted)
BatchEnvs(n) ==
    {[i \in 1..n |-> IF i = k THEN env ELSE "ok"] : k \in 1..n, env \in SendEnvs}
        \cup {[i \in 1..n |-> "ok"]}
EntryEnvs == {"ok", "entry", "id", "message", "source"}
LabelEnvs == {"ok", "new_keys", "new_values", "key_copy", "value_copy", "abort"}

-----------------------------------------------------------------------------
(* The calls of the program *)

Call(op, arg, result, sys, oom, out) ==
    [op |-> op, arg |-> arg, result |-> result, sys |-> sys, oom |-> oom, out |-> out]

\* a pointer or a bool as a C truth value
Truth(b) == IF b THEN 1 ELSE 0

Init ==
    /\ client = NULL
    /\ os_open = {}
    /\ entries = <<>>
    /\ last = Call("none", <<>>, 0, <<>>, FALSE, NULL)
    /\ proc = "running"

NewUnix(socket_path, calloc_ok) ==
    /\ proc = "running" /\ client = NULL
    /\ client' = logflux_client_new_unix(socket_path, calloc_ok)
    /\ last' = Call("new_unix", socket_path, Truth(client' # NULL), <<>>,
                    socket_path # NULL /\ ~calloc_ok, NULL)
    /\ UNCHANGED <<os_open, entries, proc>>

NewTcp(host, port, calloc_ok, file) ==
    /\ proc = "running" /\ client = NULL
    /\ client' = logflux_client_new_tcp(host, port, calloc_ok, file)
    /\ last' = Call("new_tcp", <<host, port, file>>, Truth(client' # NULL), <<>>,
                    host # NULL /\ port # 0 /\ ~calloc_ok, NULL)
    /\ UNCHANGED <<os_open, entries, proc>>

NewConfig(config, calloc_ok) ==
    /\ proc = "running" /\ client = NULL
    /\ client' = logflux_client_new_config(config, calloc_ok)
    /\ last' = Call("new_config", config, Truth(client' # NULL), <<>>,
                    config # NULL /\ ~calloc_ok, NULL)
    /\ UNCHANGED <<os_open, entries, proc>>

Connect(env) ==
    /\ proc = "running"
    /\ LET r == logflux_client_connect(client, os_open, env)
       IN  /\ client' = r.client
           /\ os_open' = r.open
           /\ last' = Call("connect", <<>>, r.result, r.sys, FALSE, NULL)
    /\ UNCHANGED <<entries, proc>>

IsConnected ==
    /\ proc = "running"
    /\ last' = Call("is_connected", <<>>, Truth(logflux_client_is_connected(client)),
                    <<>>, FALSE, NULL)
    /\ UNCHANGED <<client, os_open, entries, proc>>

Close ==
    /\ proc = "running"
    /\ LET r == logflux_client_close(client, os_open)
       IN  /\ client' = r.client
           /\ os_open' = r.open
           /\ last' = Call("close", <<>>, r.result, r.sys, FALSE, NULL)
    /\ UNCHANGED <<entries, proc>>

Free ==
    /\ proc = "running"
    /\ LET r == logflux_client_free(client, os_open)
       IN  /\ client' = r.client
           /\ os_open' = r.open
           /\ last' = Call("free", <<>>, 0, r.sys, FALSE, NULL)
    /\ UNCHANGED <<entries, proc>>

\* one of the entry's label arrays has been released and the entry still
\* points to it
labels_released(entry) == entry.labels.keys_freed \/ entry.labels.values_freed

\* the state after a send function that gives up the connection when the
\* send failed with Connection: it closes the socket and clears the flag
Sent_disconnects_on_failure(op, arg, r) ==
    /\ last' = Call(op, arg, r.result, r.sys, r.oom, NULL)
    /\ proc' = IF r.aborted THEN "aborted" ELSE proc
    /\ os_open' = IF r.aborted \/ r.result = LOGFLUX_ERROR_CONNECTION THEN {} ELSE os_open
    /\ client' = IF r.result = LOGFLUX_ERROR_CONNECTION
                 THEN [client EXCEPT !.socket_fd = -1, !.connected = FALSE]
                 ELSE client
    /\ UNCHANGED entries

\* the state after a send function: a process killed inside the call is
\* gone, and the kernel has closed its descriptors
Sent(op, arg, r) ==
    /\ last' = Call(op, arg, r.result, r.sys, r.oom, NULL)
    /\ proc' = IF r.aborted THEN "aborted" ELSE proc
    /\ os_open' = IF r.aborted THEN {} ELSE os_open
    /\ UNCHANGED <<client, entries>>

\* send_entry with entry i of the caller's entries (0: an absent entry); with
\* env "abort" the encoder's read of a released label array, if one is made,
\* kills the process
SendEntry(i, env) ==
    /\ proc = "running"
    /\ LET r == logflux_client_send_entry(client, IF i = 0 THEN NULL ELSE entries[i], env)
           released == IF i = 0 \/ client = NULL THEN FALSE
                       ELSE /\ client.connected
                            /\ labels_released(entries[i])
                            /\ entries[i].labels.count > 0
       IN  Sent("send_entry", i,
                IF released /\ env = "abort" THEN Outcome(LOGFLUX_OK, <<>>, FALSE, TRUE)
                ELSE r)

SendLog(message, uuid, now, alloc_env, env) ==
    /\ proc = "running"
    /\ Sent("send_log", message,
            logflux_client_send_log(client, message, uuid, now, alloc_env, env))

\* send_batch with the first count of the caller's entries
SendBatch(count, envs) ==
    /\ proc = "running"
    /\ Sent("send_batch", count,
            logflux_client_send_batch(client,
                IF Len(entries) = 0 THEN NULL ELSE [arr |-> entries], count, envs))

\* entry_new; the new entry becomes the last of the caller's entries
EntryNew(max, message, uuid, now, env) ==
    /\ proc = "running" /\ Len(entries) < max
    /\ LET e == logflux_entry_new(message, uuid, now, env)
       IN  /\ entries' = IF e = NULL THEN entries ELSE Append(entries, e)
           /\ last' = Call("entry_new", message, Truth(e # NULL), <<>>,
                           message # NULL /\ env # "ok",
                           [live |-> entry_new_live(message, env)])
    /\ UNCHANGED <<client, os_open, proc>>

\* add_label on entry i of the caller's entries (0: an absent entry); with
\* env "abort" a use of a released label array, if one is made (by realloc or
\* by the store of the copies), kills the process
AddLabel(max, i, key, value, env) ==
    /\ proc = "running"
    /\ IF i = 0 THEN TRUE ELSE entries[i].labels.count < max
    /\ LET r == logflux_entry_add_label(IF i = 0 THEN NULL ELSE entries[i], key, value, env)
           aborted == /\ env = "abort" /\ i # 0 /\ key # NULL /\ value # NULL
                      /\ labels_released(entries[i])
       IN  /\ entries' = IF aborted \/ i = 0 THEN entries
                         ELSE [entries EXCEPT ![i] = r.entry]
           /\ last' = Call("add_label", <<i, key, value>>, r.result, <<>>,
                           r.result = LOGFLUX_ERROR_MEMORY, NULL)
           /\ proc' = IF aborted THEN "aborted" ELSE proc
    /\ UNCHANGED <<client, os_open>>

\* logflux_entry_free on the last of the caller's entries, or on an absent
\* entry when they have none; with env "abort" the free of a label array
\* that was released before kills the process
EntryFree(env) ==
    /\ proc = "running"
    /\ LET aborted == /\ env = "abort" /\ Len(entries) > 0
                      /\ labels_released(entries[Len(entries)])
       IN  /\ entries' = IF aborted \/ Len(entries) = 0 THEN entries
                         ELSE SubSeq(entries, 1, Len(entries) - 1)
           /\ proc' = IF aborted THEN "aborted" ELSE proc
    /\ last' = Call("entry_free", Len(entries), 0, <<>>, FALSE, NULL)
    /\ UNCHANGED <<client, os_open>>

Next ==
    \/ \E p \in Paths, a \in BOOLEAN : NewUnix(p, a)
    \/ \E h \in Hosts, p \in Ports, a \in BOOLEAN, f \in SecretFiles : NewTcp(h, p, a, f)
    \/ \E c \in Configs, a \in BOOLEAN : NewConfig(c, a)
    \/ \E env \in ConnEnvs : Connect(env)
    \/ IsConnected
    \/ Close
    \/ Free
    \/ \E i \in 0..Len(entries), env \in SendEnvs : SendEntry(i, env)
    \/ \E m \in Messages, t \in Clock, e \in SendLogEnvs :
           SendLog(m, uuid_a, t, e[1], e[2])
    \/ \E n \in 0..Len(entries) : \E envs \in BatchEnvs(n) : SendBatch(n, envs)
    \/ \E m \in Messages, t \in Clock, env \in EntryEnvs :
           EntryNew(MaxBatch, m, uuid_a, t, env)
    \/ \E env \in {"ok", "abort"} : EntryFree(env)

Spec == Init /\ [][Next]_vars

-----------------------------------------------------------------------------
(* The entry and the encoder on their own: one entry, built by entry_new,
   changed by the setters and add_label, and encoded by entry_to_json *)

EntryMessages == {NULL, Str(msg_hi), Str(msg_fit)}
Levels == {-1, 3, 8}
Types == {0, 2, 6}
Sources == {NULL, Str(<<"a", "p", "p">>)}
Timestamps == {-5}
LabelKeys == {NULL, Str(<<"a">>)}
LabelValues == {NULL, Str(<<"1">>), Str(<<"2">>)}
Secrets == {NULL, Str(<<>>), Str(secret_s3)}

\* the caller's entry, absent when they have none
TheEntry == IF Len(entries) > 0 THEN entries[1] ELSE NULL

\* a setter on the entry: r is what it returns and the entry afterwards
Set(op, arg, r, oom) ==
    /\ entries' = IF Len(entries) > 0 THEN [entries EXCEPT ![1] = r.entry] ELSE entries
    /\ last' = Call(op, arg, r.result, <<>>, oom, NULL)
    /\ UNCHANGED <<client, os_open, proc>>

SetLevel(level) ==
    /\ proc = "running"
    /\ Set("set_level", level, logflux_entry_set_level(TheEntry, level), FALSE)

SetType(type) ==
    /\ proc = "running"
    /\ Set("set_type", type, logflux_entry_set_type(TheEntry, type), FALSE)

SetSource(source, env) ==
    /\ proc = "running"
    /\ Set("set_source", source, logflux_entry_set_source(TheEntry, source, env),
           source # NULL /\ env # "ok")

SetTimestamp(timestamp) ==
    /\ proc = "running"
    /\ Set("set_timestamp", timestamp, logflux_entry_set_timestamp(TheEntry, timestamp),
           FALSE)

\* entry_to_json on the entry; env: "json_malloc" when malloc fails, "abort"
\* when a write outside the buffer or a read of a released label array, if
\* one is made, kills the process
Encode(shared_secret, env) ==
    /\ proc = "running" /\ Len(entries) > 0
    /\ LET json == entry_to_json(entries[1], shared_secret, env # "json_malloc")
           released == labels_released(entries[1]) /\ entries[1].labels.count > 0
           aborted == json # NULL /\ (json.oob \/ released) /\ env = "abort"
       IN  /\ last' = Call("entry_to_json", shared_secret, 0, <<>>, json = NULL,
                           IF aborted THEN NULL ELSE json)
           /\ proc' = IF aborted THEN "aborted" ELSE proc
    /\ UNCHANGED <<client, os_open, entries>>

NextEntry ==
    \/ \E m \in EntryMessages, t \in Clock, env \in EntryEnvs :
           EntryNew(1, m, uuid_a, t, env)
    \/ \E level \in Levels : SetLevel(level)
    \/ \E type \in Types : SetType(type)
    \/ \E source \in Sources, env \in {"ok", "new_source"} : SetSource(source, env)
    \/ \E timestamp \in Timestamps : SetTimestamp(timestamp)
    \/ \E key \in LabelKeys, value \in LabelValues, env \in LabelEnvs :
           Len(entries) > 0 /\ AddLabel(MaxLabels, 1, key, value, env)
    \/ \E env \in {"ok", "abort"} : EntryFree(env)
    \/ \E secret \in Secrets, env \in {"ok", "json_malloc", "abort"} : Encode(secret, env)

SpecEntry == Init /\ [][NextEntry]_vars

-----------------------------------------------------------------------------
(* The label arrays on their own: one entry and enough add_label calls to
   fill the first allocation of capacity 4 and grow it *)

\* the most labels of the entry of SpecLabels
LabelLimit == 5

NextLabels ==
    \/ \E t \in Clock, env \in EntryEnvs : EntryNew(1, Str(msg_hi), uuid_a, t, env)
    \/ \E key \in LabelKeys, value \in LabelValues, env \in LabelEnvs :
           Len(entries) > 0 /\ AddLabel(LabelLimit, 1, key, value, env)
    \/ \E env \in {"ok", "abort"} : EntryFree(env)
    \/ \E env \in {"ok", "json_malloc", "abort"} : Encode(NULL, env)

SpecLabels == Init /\ [][NextLabels]_vars

-----------------------------------------------------------------------------
(* The range checks of the setters: one entry, every level and type of the
   header and the values next to them *)

AllLevels == (LOGFLUX_LEVEL_EMERGENCY - 1)..(LOGFLUX_LEVEL_DEBUG + 1)
AllTypes == (LOGFLUX_TYPE_LOG - 1)..(LOGFLUX_TYPE_AUDIT + 1)

NextSetters ==
    \/ \E t \in Clock, env \in EntryEnvs : EntryNew(1, Str(msg_hi), uuid_a, t, env)
    \/ \E level \in AllLevels : SetLevel(level)
    \/ \E type \in AllTypes : SetType(type)
    \/ \E env \in {"ok", "abort"} : EntryFree(env)

SpecSetters == Init /\ [][NextSetters]_vars

-----------------------------------------------------------------------------
(* Every public function with absent and with present arguments *)

\* the caller's buffer for the secret before the call, and its size
secret_old == <<"o", "l", "d">>
SecretBuffers == {NULL, Str(secret_old)}
SecretSizes == {0, shared_secret_size}

\* logflux_load_shared_secret(secret, size); last.out is the buffer afterwards
LoadSecret(secret, size, file) ==
    /\ proc = "running"
    /\ LET r == logflux_load_shared_secret(secret, size, file)
       IN  last' = Call("load_shared_secret", <<secret, size, file>>, r.result, <<>>, FALSE,
                        r.secret)
    /\ UNCHANGED <<client, os_open, entries, proc>>

NextAbsent ==
    \/ \E p \in {NULL, Str(path_agent)}, a \in BOOLEAN : NewUnix(p, a)
    \/ \E h \in {NULL, Str(host_lo)}, p \in Ports, a \in BOOLEAN, f \in SecretFiles :
           NewTcp(h, p, a, f)
    \/ \E c \in Configs, a \in BOOLEAN : NewConfig(c, a)
    \/ \E env \in {"ok", "connect"} : Connect(env)
    \/ IsConnected
    \/ Close
    \/ Free
    \/ \E i \in 0..Len(entries) : SendEntry(i, "ok")
    \/ \E m \in {NULL, Str(msg_hi)}, t \in Clock : SendLog(m, uuid_a, t, "ok", "ok")
    \/ \E n \in 0..1 : SendBatch(n, [i \in 1..n |-> "ok"])
    \/ \E m \in {NULL, Str(msg_hi)}, t \in Clock : EntryNew(1, m, uuid_a, t, "ok")
    \/ \E level \in Levels : SetLevel(level)
    \/ \E type \in Types : SetType(type)
    \/ \E source \in Sources : SetSource(source, "ok")
    \/ \E timestamp \in Timestamps : SetTimestamp(timestamp)
    \/ \E i \in 0..Len(entries), key \in LabelKeys, value \in LabelValues :
           AddLabel(1, i, key, value, "ok")
    \/ \E env \in {"ok", "abort"} : EntryFree(env)
    \/ \E secret \in SecretBuffers, size \in SecretSizes, f \in SecretFiles :
           LoadSecret(secret, size, f)

SpecAbsent == Init /\ [][NextAbsent]_vars

-----------------------------------------------------------------------------
(* The bytes of one send: a Unix client, one short entry whose strings may
   hold a newline or a double quote *)

msg_newline == <<"a", NL, "b">>
msg_quote == <<"a", Q, "b">>
LineMessages == {Str(msg_hi), Str(msg_newline), Str(msg_quote)}
LineSources == {Str(<<"a", "p", "p">>), Str(<<"a", NL>>)}
LineKeys == {Str(<<"k">>), Str(<<Q>>)}
LineValues == {Str(<<"v">>), Str(<<NL>>)}

NextLine ==
    \/ \E a \in BOOLEAN : NewUnix(Str(path_agent), a)
    \/ \E env \in {"ok", "connect"} : Connect(env)
    \/ \E m \in LineMessages, t \in Clock : EntryNew(1, m, uuid_a, t, "ok")
    \/ \E source \in LineSources : SetSource(source, "ok")
    \/ \E key \in LineKeys, value \in LineValues :
           Len(entries) > 0 /\ AddLabel(1, 1, key, value, "ok")
    \/ \E i \in 0..Len(entries), env \in {"ok", "short_1"} : SendEntry(i, env)
    \/ \E env \in {"ok", "abort"} : EntryFree(env)

SpecLine == Init /\ [][NextLine]_vars

-----------------------------------------------------------------------------
(* The error descriptions: the setters of SpecSetters, and error_string
   called with every error kind and the values around them *)

ErrorValues == (LOGFLUX_ERROR_NOT_CONNECTED - 2)..(LOGFLUX_OK + 2)

\* logflux_error_string(error); last.out is the description returned
ErrorString(error) ==
    /\ proc = "running"
    /\ last' = Call("error_string", error, 0, <<>>, FALSE, logflux_error_string(error))
    /\ UNCHANGED <<client, os_open, entries, proc>>

NextErrors ==
    \/ \E t \in Clock, env \in EntryEnvs : EntryNew(1, Str(msg_hi), uuid_a, t, env)
    \/ \E level \in AllLevels : SetLevel(level)
    \/ \E type \in AllTypes : SetType(type)
    \/ \E error \in ErrorValues : ErrorString(error)

SpecErrors == Init /\ [][NextErrors]_vars

-----------------------------------------------------------------------------
(* Claims *)

\* the most recent call was op and has returned
Returned(op) == proc = "running" /\ last.op = op

Connected == client # NULL /\ client.connected

Unconnected == client # NULL /\ ~client.connected

\* the names of the system calls in a trace
CallsOf(sys) == {sys[i].call : i \in 1..Len(sys)}

\* The send functions leave the client as it is, so the client after the
\* call is the client the call was made on.
\* a send function was called on a client that is not Connected, with a
\* non-absent entry or message and, for send_batch, count > 0
C1_SendOnUnconnected ==
    /\ Unconnected
    /\ \/ Returned("send_entry") /\ last.arg # 0
       \/ Returned("send_log") /\ last.arg # NULL
       \/ Returned("send_batch") /\ last.arg > 0

C2_Lifecycle ==
    /\ [](/\ (Returned("new_unix") \/ Returned("new_tcp") \/ Returned("new_config"))
             /\ client # NULL
             => ~client.connected /\ client.socket_fd = -1
                /\ ~logflux_client_is_connected(client)
          /\ Returned("connect") /\ client # NULL /\ last.result # LOGFLUX_OK
             => ~client.connected /\ ~logflux_client_is_connected(client)
          /\ Returned("connect") /\ client # NULL /\ last.result = LOGFLUX_OK
             => client.connected /\ logflux_client_is_connected(client))
    /\ [][/\ (~Connected /\ Connected')
             => client # NULL /\ last'.op = "connect" /\ last'.result = LOGFLUX_OK
          /\ (Unconnected /\ last'.op = "connect" /\ last' # last)
             => last'.sys # <<>> /\ last'.sys[1].call \in {"socket AF_UNIX", "socket AF_INET"}
       ]_vars

\* a connect succeeded with a new socket and the client is Connected
C2_Witness ==
    /\ Returned("connect") /\ last.result = LOGFLUX_OK /\ last.sys # <<>>
    /\ Connected /\ client.socket_fd \in os_open

\* C3: connect on a Connected client returns success, makes no system call
\* and leaves the client, its socket handle and the open sockets unchanged.
C3_ConnectIdempotent ==
    [][(Connected /\ last'.op = "connect" /\ last' # last)
        => /\ last'.result = LOGFLUX_OK
           /\ last'.sys = <<>>
           /\ client' = client
           /\ os_open' = os_open]_vars

\* a connect returned success without any system call
C3_Witness ==
    Returned("connect") /\ Connected /\ last.result = LOGFLUX_OK /\ last.sys = <<>>

\* C4: close on a non-absent client returns success; afterwards the client is
\* not Connected, holds no socket handle and no socket is open; close changes
\* nothing else, and on a client without a socket it changes nothing at all.
C4_CloseAlwaysSucceeds ==
    /\ [](Returned("close") /\ client # NULL
          => /\ last.result = LOGFLUX_OK
             /\ ~client.connected /\ client.socket_fd = -1
             /\ ~logflux_client_is_connected(client)
             /\ os_open = {})
    /\ [][(client # NULL /\ last'.op = "close" /\ last' # last)
          => /\ client'.config = client.config
             /\ os_open' = os_open \ {client.socket_fd}
             /\ (client.socket_fd < 0 /\ ~client.connected
                 => client' = client /\ os_open' = os_open /\ last'.sys = <<>>)]_vars

\* close released the socket of a Connected client
C4_Witness ==
    /\ Returned("close") /\ client # NULL /\ last.result = LOGFLUX_OK
    /\ last.sys # <<>> /\ last.sys[1].call = "close"

\* the line of entry i of the caller's entries as the client encodes it
C5_Line(i) ==
    entry_to_json(entries[i],
                  IF client.config.connection_type = LOGFLUX_CONN_TCP
                  THEN Str(client.config.shared_secret) ELSE NULL,
                  TRUE).str \o <<NL>>

\* the send was handed a whole line and the socket took all of it
C5_Complete(ev) == ev.ret = Len(ev.data)

\* C5: send_batch of N > 0 entries on a Connected client makes one send per
\* entry, in index order, on the client's socket, each carrying the line of
\* its entry; every send before the last one made is complete; it returns
\* success exactly when all N sends were made and were complete; otherwise
\* the entry k that failed is the one of the last send made (Connection) or,
\* when an allocation failed before its send, the one after it (Memory), the
\* k-1 sends before it are complete and nothing is sent for a later entry.
\* When the process dies inside the call, the sends it made are complete
\* lines of the first entries, in order, and fewer than N.
C5_BatchStopsAtFirstFailure ==
    (last.op = "send_batch" /\ Connected /\ last.arg > 0) =>
        LET N == last.arg
            n == Len(last.sys)
        IN  /\ n <= N
            /\ \A i \in 1..n :
                  /\ last.sys[i].call = "send"
                  /\ last.sys[i].fd = client.socket_fd
                  /\ last.sys[i].data = C5_Line(i)
                  /\ i < n => C5_Complete(last.sys[i])
            /\ proc = "running" =>
                  /\ last.result = LOGFLUX_OK <=> (n = N /\ C5_Complete(last.sys[n]))
                  /\ last.result # LOGFLUX_OK =>
                        IF n > 0 /\ ~C5_Complete(last.sys[n])
                        THEN last.result = LOGFLUX_ERROR_CONNECTION /\ ~last.oom
                        ELSE last.result = LOGFLUX_ERROR_MEMORY /\ last.oom /\ n < N
            /\ proc # "running" => n < N /\ \A i \in 1..n : C5_Complete(last.sys[i])

\* a batch of two stopped at its second entry: one complete line, then the
\* send that failed
C5_Witness ==
    /\ Returned("send_batch") /\ Connected /\ last.arg = 2
    /\ last.result = LOGFLUX_ERROR_CONNECTION
    /\ Len(last.sys) = 2 /\ C5_Complete(last.sys[1]) /\ ~C5_Complete(last.sys[2])

\* a connect call on a client of the given transport made an attempt
ConnectAttempt(type) ==
    /\ Returned("connect") /\ client # NULL /\ last.sys # <<>>
    /\ client.config.connection_type = type

\* some system call of the trace with this name failed
Failed(sys, calls) == \E i \in 1..Len(sys) : sys[i].call \in calls /\ sys[i].ret < 0

SetTimeoutCalls == {"setsockopt SO_RCVTIMEO", "setsockopt SO_SNDTIMEO"}

\* the path does not fit the socket address beside its terminator
C6_PathTooLong == Len(client.config.socket_path) > sun_path_size - 1

\* C6: a connect attempt of a Unix client returns Connection when socket()
\* fails, else Timeout when the timeout cannot be applied, else InvalidParam
\* when socket_path is too long for the socket address, else Connection when
\* connect() fails (as it does without a listener at the path), else success;
\* connect() is called only after the three earlier checks have passed.
C6_UnixConnectErrors ==
    ConnectAttempt(LOGFLUX_CONN_UNIX) =>
        /\ last.sys[1].call = "socket AF_UNIX"
        /\ last.result =
              IF Failed(last.sys, {"socket AF_UNIX"}) THEN LOGFLUX_ERROR_CONNECTION
              ELSE IF Failed(last.sys, SetTimeoutCalls) THEN LOGFLUX_ERROR_TIMEOUT
              ELSE IF C6_PathTooLong THEN LOGFLUX_ERROR_INVALID_PARAM
              ELSE IF Failed(last.sys, {"connect"}) THEN LOGFLUX_ERROR_CONNECTION
              ELSE LOGFLUX_OK
        /\ "connect" \in CallsOf(last.sys) <=>
              ~(Failed(last.sys, {"socket AF_UNIX"}) \/ Failed(last.sys, SetTimeoutCalls)
                \/ C6_PathTooLong)
        /\ Failed(last.sys, {"socket AF_UNIX"}) => CallsOf(last.sys) = {"socket AF_UNIX"}
        /\ client.config.socket_path \notin ListeningPaths => last.result # LOGFLUX_OK

\* a Unix connect was refused for its path after the timeout was applied
C6_Witness ==
    /\ ConnectAttempt(LOGFLUX_CONN_UNIX)
    /\ last.result = LOGFLUX_ERROR_INVALID_PARAM
    /\ SetTimeoutCalls \subseteq CallsOf(last.sys)

\* the hosts of the model that are literal dotted-quad IPv4 addresses
C7_LiteralHosts == {host_lo}

\* C7, as stated: a connect attempt of a TCP client whose host is not a
\* literal IPv4 address returns Connection without resolving a name and
\* without calling connect(); with a literal host a failed connect() returns
\* Connection and a failed timeout application returns Timeout.
C7_NoResolution ==
    ConnectAttempt(LOGFLUX_CONN_TCP) =>
        IF client.config.host \notin C7_LiteralHosts
        THEN /\ last.result = LOGFLUX_ERROR_CONNECTION
             /\ CallsOf(last.sys) \subseteq {"socket AF_INET", "close"} \cup SetTimeoutCalls
        ELSE /\ Failed(last.sys, {"connect"}) => last.result = LOGFLUX_ERROR_CONNECTION
             /\ Failed(last.sys, SetTimeoutCalls) => last.result = LOGFLUX_ERROR_TIMEOUT

\* C7, amended: a connect attempt of a TCP client whose host is not a literal
\* IPv4 address resolves no name and never calls connect(); it returns
\* Timeout when the timeout cannot be applied to the new socket (the timeout
\* is applied before the host is parsed) and Connection otherwise.  With a
\* literal host a failed connect() returns Connection and a failed timeout
\* application returns Timeout.
C7_NoResolutionAfterTimeout ==
    ConnectAttempt(LOGFLUX_CONN_TCP) =>
        IF client.config.host \notin C7_LiteralHosts
        THEN /\ last.result = IF Failed(last.sys, SetTimeoutCalls)
                              THEN LOGFLUX_ERROR_TIMEOUT
                              ELSE LOGFLUX_ERROR_CONNECTION
             /\ CallsOf(last.sys) \subseteq {"socket AF_INET", "close"} \cup SetTimeoutCalls
        ELSE /\ Failed(last.sys, {"connect"}) => last.result = LOGFLUX_ERROR_CONNECTION
             /\ Failed(last.sys, SetTimeoutCalls) => last.result = LOGFLUX_ERROR_TIMEOUT

\* a TCP connect with a host name was refused after the timeout was applied
C7_Witness ==
    /\ ConnectAttempt(LOGFLUX_CONN_TCP)
    /\ client.config.host = host_name
    /\ last.result = LOGFLUX_ERROR_CONNECTION
    /\ SetTimeoutCalls \subseteq CallsOf(last.sys) /\ ~Failed(last.sys, SetTimeoutCalls)

\* text occurs in data
Contains(data, text) ==
    \E i \in 1..(Len(data) - Len(text) + 1) :
        data[i] = text[1] /\ SubSeq(data, i, i + Len(text) - 1) = text

\* the shared_secret member of a payload that carries secret
SecretMember(secret) == fmt_secret \o secret \o <<Q>>

\* C8: every payload a client sends carries the configured shared secret (as
\* its shared_secret member) if and only if the client's connection type is
\* TCP and the secret is not empty; a payload of a Unix client has no
\* shared_secret member whatever secret its configuration holds.
C8_SecretIffTcp ==
    (last.op \in {"send_entry", "send_log", "send_batch"} /\ Connected) =>
        \A i \in 1..Len(last.sys) :
            /\ Contains(last.sys[i].data, SecretMember(client.config.shared_secret))
                  <=> (client.config.connection_type = LOGFLUX_CONN_TCP
                       /\ client.config.shared_secret # <<>>)
            /\ client.config.connection_type = LOGFLUX_CONN_UNIX
                  => ~Contains(last.sys[i].data, fmt_secret)

\* the members of the encoded object that the contract lists, in its order
C9_Labels(entry) ==
    [i \in 1..entry.labels.count |->
        (IF i > 1 THEN <<",">> ELSE <<>>) \o <<Q>> \o entry.labels.keys[i] \o <<Q, ":", Q>>
        \o entry.labels.values[i] \o <<Q>>]

RECURSIVE Concat(_)
Concat(seqs) == IF seqs = <<>> THEN <<>> ELSE Head(seqs) \o Concat(Tail(seqs))

C9_Object(entry, shared_secret) ==
    fmt_open \o entry.id \o fmt_message \o entry.message \o fmt_source \o entry.source
    \o fmt_entry_type \o FormatInt(entry.type) \o fmt_level \o FormatInt(entry.level)
    \o fmt_timestamp \o FormatInt(entry.timestamp)
    \o (IF shared_secret # NULL /\ shared_secret.str # <<>>
        THEN fmt_secret \o shared_secret.str \o <<Q>> ELSE <<>>)
    \o (IF entry.labels.count > 0
        THEN fmt_labels \o Concat(C9_Labels(entry)) \o <<"}">> ELSE <<>>)
    \o <<"}">>

\* C9: the object entry_to_json returns for an entry and an optional secret
\* has the members id, message, source, entry_type, level, timestamp in this
\* order, then shared_secret exactly when a non-empty secret was supplied,
\* then labels exactly when the entry has a label; entry_type and level are
\* the integers stored in the entry, which lie in 1..5 and 0..7.
C9_FixedKeyOrder ==
    /\ \A i \in 1..Len(entries) :
          /\ entries[i].type \in LOGFLUX_TYPE_LOG..LOGFLUX_TYPE_AUDIT
          /\ entries[i].level \in LOGFLUX_LEVEL_EMERGENCY..LOGFLUX_LEVEL_DEBUG
    /\ (Returned("entry_to_json") /\ last.out # NULL /\ Len(entries) > 0)
          => last.out.str = C9_Object(entries[1], last.arg)

\* C10: every successful add_label appends its key/value pair to the pairs
\* the entry stores and changes no earlier pair, a failed add_label leaves
\* the stored pairs as they are, and the labels member of the encoded object
\* renders the stored pairs, all of them, in insertion order.
C10_LabelsInInsertionOrder ==
    /\ [](Returned("entry_to_json") /\ last.out # NULL /\ Len(entries) > 0
          /\ entries[1].labels.count > 0
          => LET member == fmt_labels \o Concat(C9_Labels(entries[1])) \o <<"}", "}">>
                 n == Len(last.out.str)
             IN  /\ n >= Len(member)
                 /\ SubSeq(last.out.str, n - Len(member) + 1, n) = member)
    /\ [][(last'.op = "add_label" /\ last' # last) =>
            LET l == entries[1].labels
                pairs == [i \in 1..l.count |-> <<l.keys[i], l.values[i]>>]
                l2 == entries'[1].labels
                pairs2 == [i \in 1..l2.count |-> <<l2.keys[i], l2.values[i]>>]
            IN  pairs2 = IF last'.result = LOGFLUX_OK
                         THEN Append(pairs, <<last'.arg[2].str, last'.arg[3].str>>)
                         ELSE pairs
       ]_vars

\* the object of the entry does not fit the encoder's buffer beside its
\* terminator
C11_TooBig(entry, shared_secret) == Len(C9_Object(entry, shared_secret)) > buffer_size - 1

\* the secret the client hands to the encoder
ClientSecret ==
    IF client.config.connection_type = LOGFLUX_CONN_TCP
    THEN Str(client.config.shared_secret) ELSE NULL

\* C11: when the object of an entry, with its secret and labels, does not fit
\* the encoder's buffer, send_entry on a Connected client reports a failure
\* and sends nothing, and the encoder makes no write outside its buffer (so
\* no send function ever ends with the process killed by such a write).
C11_OversizeRejected ==
    /\ proc = "running"
    /\ (Returned("send_entry") /\ Connected /\ last.arg # 0
        /\ C11_TooBig(entries[last.arg], ClientSecret))
          => last.result # LOGFLUX_OK /\ last.sys = <<>>

\* the key/value pairs an entry stores, in order
Pairs(entry) ==
    [i \in 1..entry.labels.count |-> <<entry.labels.keys[i], entry.labels.values[i]>>]

\* C12: an add_label that fails with Memory, at whichever allocation, leaves
\* the entry with the pairs it held before the call and with both label
\* arrays valid; no entry ever points to a released label array, so no later
\* add_label, encode or free touches released storage or kills the process.
C12_FailedAddLabelKeepsLabels ==
    /\ [](/\ \A i \in 1..Len(entries) : ~labels_released(entries[i])
          /\ last.op \in {"add_label", "entry_to_json", "entry_free"} => proc = "running")
    /\ [][(last'.op = "add_label" /\ last' # last /\ last'.result = LOGFLUX_ERROR_MEMORY)
          => Pairs(entries'[1]) = Pairs(entries[1])]_vars

\* an entry as entry_new promises it: all three strings present, the SDK's
\* source, level Info, type Log, no label
C13_Fresh(e, message) ==
    /\ e.id # NULL /\ Len(e.id) = 36
    /\ e.message = message.str
    /\ e.source = default_source
    /\ e.level = LOGFLUX_LEVEL_INFO /\ e.type = LOGFLUX_TYPE_LOG
    /\ e.labels.count = 0 /\ e.labels.keys = <<>> /\ e.labels.values = <<>>

\* C13: entry_new with a non-absent message returns either an entry with id,
\* message and source present, the SDK's default source, level Info, type Log
\* and no label, holding exactly its own four blocks, or, when an allocation
\* fails, no entry, with nothing left allocated and the caller's entries as
\* they were; no entry ever lacks its id.
C13_EntryNewAllOrNothing ==
    /\ [](/\ \A i \in 1..Len(entries) : entries[i].id # NULL
          /\ (Returned("entry_new") /\ last.arg # NULL) =>
                IF last.result = 1
                THEN /\ ~last.oom
                     /\ Len(entries) > 0 /\ C13_Fresh(entries[Len(entries)], last.arg)
                     /\ last.out.live = {"entry", "id", "message", "source"}
                ELSE last.oom /\ last.out.live = {})
    /\ [][(last'.op = "entry_new" /\ last' # last) =>
            IF last'.result = 1
            THEN SubSeq(entries', 1, Len(entries)) = entries /\ Len(entries') = Len(entries) + 1
            ELSE entries' = entries]_vars

\* entry_new gave up after an allocation failed and left nothing allocated
C13_Witness ==
    /\ Returned("entry_new") /\ last.arg # NULL
    /\ last.result = 0 /\ last.oom /\ last.out.live = {}

\* C14: set_level returns success for each level 0..7 and stores it, and
\* returns InvalidParam for every other value; set_type does the same for
\* the types 1..5; a failed call leaves the entry as it was and a successful
\* one changes its own field only; the level and type of every entry are
\* always within 0..7 and 1..5.
C14_SettersRangeChecked ==
    /\ [](/\ \A i \in 1..Len(entries) :
                entries[i].level \in 0..7 /\ entries[i].type \in 1..5
          /\ (Returned("set_level") /\ Len(entries) > 0) =>
                /\ last.result = IF last.arg \in 0..7 THEN LOGFLUX_OK
                                 ELSE LOGFLUX_ERROR_INVALID_PARAM
                /\ last.result = LOGFLUX_OK => entries[1].level = last.arg
          /\ (Returned("set_type") /\ Len(entries) > 0) =>
                /\ last.result = IF last.arg \in 1..5 THEN LOGFLUX_OK
                                 ELSE LOGFLUX_ERROR_INVALID_PARAM
                /\ last.result = LOGFLUX_OK => entries[1].type = last.arg)
    /\ [][(last'.op \in {"set_level", "set_type"} /\ last' # last) =>
            IF last'.result = LOGFLUX_OK
            THEN entries' = [entries EXCEPT ![1] =
                    IF last'.op = "set_level" THEN [@ EXCEPT !.level = last'.arg]
                    ELSE [@ EXCEPT !.type = last'.arg]]
            ELSE entries' = entries]_vars

\* set_level refused the value after the last level and kept the level that
\* an earlier call had set
C14_Witness ==
    /\ Returned("set_level") /\ last.arg = 8
    /\ last.result = LOGFLUX_ERROR_INVALID_PARAM
    /\ Len(entries) > 0 /\ entries[1].level = 0

\* the functions that return an error code, those that return an object or
\* a truth value, and those that return nothing
ErrorCodeOps ==
    {"connect", "close", "send_entry", "send_log", "send_batch", "set_level", "set_type",
     "set_source", "set_timestamp", "add_label", "load_shared_secret"}
ClientOps == {"connect", "close", "is_connected", "free", "send_entry", "send_log", "send_batch"}
EntryOps == {"set_level", "set_type", "set_source", "set_timestamp", "entry_free"}

\* the step is a call that was given an absent client, entry, entry array,
\* message, source, key, value, path, host, configuration or buffer
C15_AbsentArgument ==
    \/ last'.op \in ClientOps /\ client = NULL
    \/ last'.op = "send_entry" /\ last'.arg = 0
    \/ last'.op = "send_batch" /\ Len(entries) = 0
    \/ last'.op \in EntryOps /\ Len(entries) = 0
    \/ last'.op \in {"send_log", "entry_new", "set_source", "new_unix", "new_config"}
          /\ last'.arg = NULL
    \/ last'.op \in {"new_tcp", "load_shared_secret"} /\ last'.arg[1] = NULL
    \/ last'.op = "add_label"
          /\ (last'.arg[1] = 0 \/ last'.arg[2] = NULL \/ last'.arg[3] = NULL)

\* C15: a public function given an absent argument changes neither the
\* client, the open sockets, the caller's entries nor the caller's buffer
\* and makes no system call; connect, close, the send functions, the entry
\* setters, add_label and load_shared_secret return InvalidParam, the
\* factories and entry_new return no object and is_connected returns false.
C15_AbsentArgumentsRejected ==
    [][C15_AbsentArgument =>
        /\ UNCHANGED <<client, os_open, entries, proc>>
        /\ last'.sys = <<>>
        /\ last'.op \in ErrorCodeOps => last'.result = LOGFLUX_ERROR_INVALID_PARAM
        /\ last'.op \in {"new_unix", "new_tcp", "new_config", "entry_new", "is_connected"}
              => last'.result = 0
        /\ last'.op = "load_shared_secret" => last'.out = NULL
      ]_vars

\* close was called without a client and reported it
C15_Witness ==
    /\ Returned("close") /\ client = NULL
    /\ last.result = LOGFLUX_ERROR_INVALID_PARAM

\* how often c occurs in the text
Count(text, c) == Cardinality({i \in 1..Len(text) : text[i] = c})

\* the strings of the object of an entry sent by a Unix client: six keys,
\* the values of id, message and source, and with labels the key labels and
\* a key and a value for each pair
C16_Strings(entry) ==
    9 + (IF entry.labels.count > 0 THEN 1 + 2 * entry.labels.count ELSE 0)

\* C16: the bytes of a successful send_entry are one line: they end with a
\* newline and hold no other newline, and the text before it is one JSON
\* object, so that (no string of the object holding a raw double quote) its
\* double quotes are exactly the two delimiters of each of its strings.
C16_OneLinePerEntry ==
    (Returned("send_entry") /\ last.result = LOGFLUX_OK /\ last.arg # 0) =>
        /\ Len(last.sys) = 1
        /\ LET data == last.sys[1].data
           IN  /\ data[Len(data)] = NL
               /\ Count(data, NL) = 1
               /\ Count(data, Q) = 2 * C16_Strings(entries[last.arg])

\* how many system calls of the trace have one of these names
CountCalls(sys, calls) == Cardinality({i \in 1..Len(sys) : sys[i].call \in calls})

C18_FreeClosesSocket ==
    [][(last'.op = "free" /\ client # NULL) =>
        /\ client' = NULL
        /\ os_open' = {}
        /\ entries' = entries
        /\ last'.sys = IF client.socket_fd >= 0
                       THEN <<Ev("close", client.socket_fd, <<>>, 0)>>
                       ELSE <<>>
      ]_vars

\* a Connected client was freed while entries existed: its socket was closed
C18_Witness ==
    /\ Returned("free") /\ client = NULL /\ os_open = {}
    /\ Len(last.sys) = 1 /\ last.sys[1].call = "close"
    /\ Len(entries) > 0

\* new_tcp was called with a host and a non-zero port
C19_NewTcpCalled == Returned("new_tcp") /\ last.arg[1] # NULL /\ last.arg[2] # 0

\* the secret file is missing or has no first line
C19_NoSecret(file) == file = NULL \/ file.str = <<>>

\* what new_tcp leaves in the client when the secret cannot be loaded, and
\* what a TCP client without a secret sends
C19_EmptySecret ==
    /\ (C19_NewTcpCalled /\ client # NULL /\ C19_NoSecret(last.arg[3]))
          => client.config.shared_secret = <<>>
    /\ (last.op \in {"send_entry", "send_log", "send_batch"} /\ Connected
        /\ client.config.connection_type = LOGFLUX_CONN_TCP
        /\ client.config.shared_secret = <<>>)
          => \A i \in 1..Len(last.sys) : ~Contains(last.sys[i].data, fmt_secret)

\* C19: new_tcp with a host and a non-zero port returns a client whether or
\* not the secret can be loaded (it returns none only when the allocation of
\* the client fails); when the secret cannot be loaded, the client's secret
\* is empty and its payloads have no shared_secret member.
C19_ClientWithoutSecret ==
    /\ C19_NewTcpCalled => (client # NULL <=> ~last.oom)
    /\ C19_EmptySecret

\* new_tcp returned a client although there was no secret file
C19_Witness ==
    /\ C19_NewTcpCalled /\ client # NULL /\ last.arg[3] = NULL
    /\ client.config.shared_secret = <<>>

\* the descriptions of the seven error kinds
C20_Descriptions ==
    [error \in -6..0 |->
        CASE error = 0 -> "Success"
          [] error = -1 -> "Invalid parameter"
          [] error = -2 -> "Memory allocation error"
          [] error = -3 -> "Connection error"
          [] error = -4 -> "Timeout"
          [] error = -5 -> "Format error"
          [] error = -6 -> "Not connected"]

\* C20: error_string returns, for each of the seven error kinds, the fixed
\* description of that kind, the seven being different from one another, and
\* "Unknown error" for every other value; the call changes no state.
C20_ErrorStringLookup ==
    /\ [](/\ Returned("error_string") =>
                last.out = IF last.arg \in DOMAIN C20_Descriptions
                           THEN C20_Descriptions[last.arg]
                           ELSE "Unknown error"
          /\ \A a, b \in DOMAIN C20_Descriptions :
                logflux_error_string(a) = logflux_error_string(b) => a = b)
    /\ [][last'.op = "error_string" => UNCHANGED <<client, os_open, entries, proc>>]_vars

\* error_string described the last of the seven kinds
C20_Witness ==
    /\ Returned("error_string") /\ last.arg = LOGFLUX_ERROR_NOT_CONNECTED
    /\ last.out = "Not connected"


-----------------------------------------------------------------------------
\* the sockets the most recent call created: the descriptors socket() returned
C21_Created == {last.sys[i].ret : i \in {j \in 1..Len(last.sys) :
                    /\ last.sys[j].call \in {"socket AF_UNIX", "socket AF_INET"}
                    /\ last.sys[j].ret >= 0}}

\* the most recent call closed descriptor fd after it had created it
C21_ClosedAgain(fd) ==
    \E i, j \in 1..Len(last.sys) :
        /\ i < j
        /\ last.sys[i].call \in {"socket AF_UNIX", "socket AF_INET"}
        /\ last.sys[i].ret = fd
        /\ last.sys[j].call = "close" /\ last.sys[j].fd = fd

\* C21: after every public operation the client's recorded handle is valid
\* exactly when the client is Connected, the open sockets are exactly that one
\* socket (none without a Connected client), every socket a call created is
\* the Connected client's socket or was closed again by the same call, and a
\* connect that fails leaves no socket open and the handle invalid.
C21_SocketOwnership ==
    proc = "running" =>
        /\ client # NULL => (client.connected <=> client.socket_fd >= 0)
        /\ os_open = IF Connected THEN {client.socket_fd} ELSE {}
        /\ Cardinality(os_open) <= 1
        /\ \A fd \in C21_Created :
               \/ Connected /\ client.socket_fd = fd /\ fd \in os_open
               \/ C21_ClosedAgain(fd) /\ fd \notin os_open
        /\ (last.op = "connect" /\ client # NULL /\ last.result # LOGFLUX_OK) =>
               /\ client.socket_fd = -1
               /\ ~client.connected
               /\ os_open = {}

\* a connect created a socket, failed at the timeout setup, the path length,
\* the host parsing or the connection attempt, and has returned
C21_Witness ==
    /\ Returned("connect") /\ client # NULL
    /\ last.result \in {LOGFLUX_ERROR_TIMEOUT, LOGFLUX_ERROR_INVALID_PARAM,
                        LOGFLUX_ERROR_CONNECTION}
    /\ C21_Created # {}
    /\ \A fd \in C21_Created : C21_ClosedAgain(fd)


-----------------------------------------------------------------------------
\* the encoded payload of the entry the most recent send_entry or send_log
\* was called with, as the client encodes it
C22_Payload ==
    entry_to_json(IF last.op = "send_entry" THEN entries[last.arg]
                  ELSE logflux_entry_new(last.arg, uuid_a, CHOOSE t \in Clock : TRUE, "ok"),
                  IF client.config.connection_type = LOGFLUX_CONN_TCP
                  THEN Str(client.config.shared_secret) ELSE NULL,
                  TRUE).str

\* send_entry or send_log was called on a Connected client with a present
\* entry or message, and has returned
C22_SendOnConnected ==
    /\ proc = "running" /\ Connected
    /\ \/ last.op = "send_entry" /\ last.arg # 0
       \/ last.op = "send_log" /\ last.arg # NULL

\* C22: a send on a Connected client makes at most one write, and none only
\* when an allocation failed before it (Memory); the one write is on the
\* client's socket and carries the encoded payload followed by exactly one
\* newline; the send succeeds exactly when that write accepted every byte,
\* and a write error or a short write is reported as Connection without a
\* second write for the remaining bytes.
C22_SingleWrite ==
    C22_SendOnConnected =>
        IF last.oom
        THEN last.sys = <<>> /\ last.result = LOGFLUX_ERROR_MEMORY
        ELSE /\ Len(last.sys) = 1
             /\ last.sys[1].call = "send"
             /\ last.sys[1].fd = client.socket_fd
             /\ last.sys[1].data = C22_Payload \o <<NL>>
             /\ last.result = LOGFLUX_OK <=> last.sys[1].ret = Len(last.sys[1].data)
             /\ last.result # LOGFLUX_OK => last.result = LOGFLUX_ERROR_CONNECTION

\* a send on a Connected client whose write accepted some of the bytes and
\* not all of them
C22_Witness ==
    /\ C22_SendOnConnected /\ ~last.oom
    /\ Len(last.sys) = 1
    /\ last.sys[1].ret > 0 /\ last.sys[1].ret < Len(last.sys[1].data)
    /\ last.result = LOGFLUX_ERROR_CONNECTION


-----------------------------------------------------------------------------
\* load_shared_secret was called with a buffer and a size and has returned;
\* last.arg[3] is the file at the selected location, absent when it is
\* missing or cannot be opened
C23_LoadCalled ==
    /\ Returned("load_shared_secret")
    /\ last.arg[1] # NULL /\ last.arg[2] > 0

\* the file at the selected location has no first line
C23_NoFirstLine == last.arg[3] # NULL /\ last.arg[3].str = <<>>

-----------------------------------------------------------------------------
(* The frame of the entry operations: a Connected Unix client and one entry
   that is changed by the setters, grown by add_label past its first
   allocation, and sent *)

FrameLevels == {LOGFLUX_LEVEL_EMERGENCY - 1, LOGFLUX_LEVEL_DEBUG}
FrameTypes == {LOGFLUX_TYPE_LOG - 1, LOGFLUX_TYPE_AUDIT}
FrameValues == {NULL, Str(<<"1">>)}

NextFrame ==
    \/ NewUnix(Str(path_agent), TRUE)
    \/ Connect("ok")
    \/ \E t \in Clock : EntryNew(1, Str(msg_hi), uuid_a, t, "ok")
    \/ \E level \in FrameLevels : SetLevel(level)
    \/ \E type \in FrameTypes : SetType(type)
    \/ \E source \in Sources, env \in {"ok", "new_source"} : SetSource(source, env)
    \/ \E timestamp \in Timestamps : SetTimestamp(timestamp)
    \/ \E value \in FrameValues, env \in LabelEnvs :
           Len(entries) > 0 /\ AddLabel(LabelLimit, 1, Str(<<"a">>), value, env)
    \/ \E i \in 0..Len(entries), env \in {"ok", "send_error", "abort"} : SendEntry(i, env)
    \/ \E env \in {"ok", "abort"} : EntryFree(env)

SpecFrame == Init /\ [][NextFrame]_vars

\* what a caller can observe of an entry: every field, and whether its label
\* arrays can still be read; the capacity of the arrays is not observable
C24_View(e) == [e EXCEPT !.labels.capacity = 0]

C24_Setters == {"set_level", "set_type", "set_source", "set_timestamp", "add_label"}

\* C24: while the entry exists, no step changes its id or its message; a step
\* of set_level, set_type, set_source, set_timestamp or add_label changes at
\* most the level, the type, the source, the timestamp or the labels; a
\* setter or add_label that returns an error changes nothing; a send_entry
\* changes nothing.
C24_EntryFrame ==
    [][(proc' = "running" /\ Len(entries) > 0 /\ Len(entries') > 0) =>
          LET e == entries[1]
              f == entries'[1]
          IN  /\ f.id = e.id /\ f.message = e.message
              /\ last'.op = "set_level" => C24_View(f) = C24_View([e EXCEPT !.level = f.level])
              /\ last'.op = "set_type" => C24_View(f) = C24_View([e EXCEPT !.type = f.type])
              /\ last'.op = "set_source" =>
                     C24_View(f) = C24_View([e EXCEPT !.source = f.source])
              /\ last'.op = "set_timestamp" =>
                     C24_View(f) = C24_View([e EXCEPT !.timestamp = f.timestamp])
              /\ last'.op = "add_label" =>
                     C24_View(f) = C24_View([e EXCEPT !.labels = f.labels])
              /\ (last'.op \in C24_Setters /\ last'.result # LOGFLUX_OK) =>
                     C24_View(f) = C24_View(e)
              /\ last'.op = "send_entry" => f = e]_vars


-----------------------------------------------------------------------------
(* Blocking calls: a collector that does not accept a connection or does not
   read, so that connect() or send() blocks inside the call.  proc is
   "blocked" while the thread is inside the system call; last names the call
   that has not returned yet and the system calls it has made so far. *)

\* the timeout set_socket_timeout stored for the sending direction of the
\* client's socket, as <<tv_sec, tv_usec>>
socket_timeout(c) == set_socket_timeout(c.socket_fd, c.config.timeout_ms, "ok").sys[2].data

\* logflux_client_connect has reached connect(): the socket is created and
\* recorded, the timeouts are stored, the path fits or the host parses
connect_reaches_connect(c, open) ==
    LET unix == c.config.connection_type = LOGFLUX_CONN_UNIX
        fd == NewFd(open)
        s1 == <<Ev(IF unix THEN "socket AF_UNIX" ELSE "socket AF_INET", -1, <<>>, fd)>>
        to == set_socket_timeout(fd, c.config.timeout_ms, "ok")
    IN  [client |-> [c EXCEPT !.socket_fd = fd], open |-> open \cup {fd},
         sys |-> s1 \o to.sys,
         reached |-> IF unix THEN Len(c.config.socket_path) < sun_path_size
                     ELSE inet_pton(c.config.host) > 0]

\* connect() returned -1 in the call that was blocked in it
connect_returns_error(c, open, sys) ==
    LET unix == c.config.connection_type = LOGFLUX_CONN_UNIX
        addr == IF unix THEN c.config.socket_path ELSE <<c.config.host, c.config.port>>
    IN  connect_failed(c, open \ {c.socket_fd}, c.socket_fd,
                       Append(sys, Ev("connect", c.socket_fd, addr, -1)),
                       LOGFLUX_ERROR_CONNECTION)

\* connect on an Unconnected client whose collector does not accept
ConnectBlocks ==
    /\ proc = "running" /\ client # NULL
    /\ ~client.connected
    /\ LET r == connect_reaches_connect(client, os_open)
       IN  /\ r.reached
           /\ client' = r.client
           /\ os_open' = r.open
           /\ last' = Call("connect", <<>>, LOGFLUX_OK, r.sys, FALSE, NULL)
    /\ proc' = "blocked"
    /\ UNCHANGED entries

\* send_entry of entry i on a Connected client whose collector does not read
SendBlocks(i) ==
    /\ proc = "running" /\ client # NULL
    /\ client.connected
    /\ last' = Call("send_entry", i, LOGFLUX_OK, <<>>, FALSE, NULL)
    /\ proc' = "blocked"
    /\ UNCHANGED <<client, os_open, entries>>

\* the blocked system call is one that the kernel ends by itself: with a
\* stored timeout that is not zero, connect() and send() fail when it
\* expires; a zero timeval stores no timeout, and then only a TCP connect()
\* ends, when the kernel gives up its connection attempts
timeout_expires(c, op) ==
    IF socket_timeout(c) # <<0, 0>> THEN TRUE
    ELSE op = "connect" /\ c.config.connection_type = LOGFLUX_CONN_TCP

\* the blocked system call fails and the call returns
Expire ==
    /\ proc = "blocked"
    /\ timeout_expires(client, last.op)
    /\ IF last.op = "connect"
       THEN LET r == connect_returns_error(client, os_open, last.sys)
            IN  /\ client' = r.client
                /\ os_open' = r.open
                /\ last' = Call("connect", <<>>, r.result, r.sys, FALSE, NULL)
       ELSE LET r == logflux_client_send_entry(client, entries[last.arg], "send_error")
            IN  /\ last' = Call("send_entry", last.arg, r.result, r.sys, FALSE, NULL)
                /\ UNCHANGED <<client, os_open>>
    /\ proc' = "running"
    /\ UNCHANGED entries

NextBlocking ==
    \/ \E p \in {Str(path_agent), Str(path_none)} : NewUnix(p, TRUE)
    \/ \E c \in Configs \ {NULL} : NewConfig(c, TRUE)
    \/ \E env \in {"ok", "connect"} : Connect(env)
    \/ ConnectBlocks
    \/ IsConnected
    \/ Close
    \/ Free
    \/ \E i \in 1..Len(entries), env \in {"ok", "short_1"} : SendEntry(i, env)
    \/ \E i \in 1..Len(entries) : SendBlocks(i)
    \/ Expire
    \/ \E t \in Clock : EntryNew(MaxBatch, Str(msg_hi), uuid_a, t, "ok")
    \/ EntryFree("ok")

\* the kernel's timers run: a blocked call whose system call can expire does
\* return
SpecBlocking == Init /\ [][NextBlocking]_vars /\ WF_vars(Expire)

\* C25: every connect and every send_entry that blocks eventually returns,
\* and it returns an error.
C25_CallsReturn ==
    (proc = "blocked") ~> (proc = "running" /\ last.result # LOGFLUX_OK)


-----------------------------------------------------------------------------
C26_Sends == {"send_entry", "send_log", "send_batch"}

\* the most recent call was a send that failed with Connection and returned
C26_SendFailed ==
    /\ proc = "running" /\ last.op \in C26_Sends
    /\ last.result = LOGFLUX_ERROR_CONNECTION

\* C26: after a send that failed with Connection the client is still
\* Connected and its socket is still open; every later call other than close
\* and client_free leaves a Connected client Connected with the same open
\* socket; directly after the failed send, is_connected returns true, connect
\* returns success without a system call, and a send_entry that writes makes
\* its one write on the same socket and hands it a line from its first
\* character on, so that the stream continues with the new line right after
\* the bytes the failed send delivered.
C26_FailedSendKeepsConnection ==
    /\ [](C26_SendFailed =>
             /\ Connected /\ client.socket_fd >= 0 /\ os_open = {client.socket_fd}
             /\ last.sys[Len(last.sys)].fd = client.socket_fd)
    /\ [][(Connected /\ proc' = "running" /\ last'.op \notin {"close", "free"}) =>
             /\ client' = client
             /\ os_open' = os_open]_vars
    /\ [][(Connected /\ last'.op \in {"close", "free"}) =>
             /\ client' = NULL \/ ~client'.connected
             /\ os_open' = {}]_vars
    /\ [][(C26_SendFailed /\ proc' = "running") =>
             /\ last'.op = "is_connected" => last'.result = 1
             /\ last'.op = "connect" => last'.result = LOGFLUX_OK /\ last'.sys = <<>>
             /\ (last'.op = "send_entry" /\ last'.sys # <<>>) =>
                    /\ Len(last'.sys) = 1
                    /\ last'.sys[1].call = "send"
                    /\ last'.sys[1].fd = last.sys[Len(last.sys)].fd
                    /\ last'.sys[1].data[1] = "{"]_vars

\* a send wrote one byte of its line, failed with Connection, and the client
\* is Connected with its socket open
C26_Witness ==
    /\ C26_SendFailed /\ Connected
    /\ last.op = "send_entry"
    /\ last.sys[1].ret = 1
    /\ client.socket_fd \in os_open


-----------------------------------------------------------------------------
(* Two threads in logflux_client_connect on the same client, without a lock.
   The calls are interleaved at their reads and writes of the client and at
   their system calls.  While the threads run, last.op is "connect_threads",
   last.sys is the system calls of both in the order they were made, and
   last.out holds, for each thread, its position pc, the descriptor fd that
   socket() returned to it and its result res; peers is the sockets that are
   connected to the collector, and overlap tells whether one call began
   while the other was in progress; last.arg is the sockets that were open
   and not recorded when the threads began, and whether the client was sound
   then.  The accesses to the client race: each
   use of client->socket_fd after the store is the value the thread stored
   (kept in a register) or the value in memory now. *)

\* the most sockets that may be open without being recorded in the client
\* when two threads begin
MaxLeaked == 1

Threads == {1, 2}

Other(t) == 3 - t

\* the open sockets that the client does not record
Leaked == os_open \ (IF client = NULL THEN {} ELSE {client.socket_fd})

\* the client's handle is valid exactly when it is Connected, and then it is
\* an open socket
Sound ==
    IF client = NULL THEN TRUE
    ELSE /\ client.connected <=> client.socket_fd >= 0
         /\ client.connected => client.socket_fd \in os_open

ThreadsIn == last.op = "connect_threads"

\* no thread is inside a call
ThreadsQuiet ==
    IF ThreadsIn THEN \A t \in Threads : last.out.pc[t] \in {"idle", "done"} ELSE TRUE

\* the values a thread may get for client->socket_fd
Uses(t) == IF ThreadsIn THEN {last.out.fd[t], client.socket_fd} ELSE {}

\* the first step of logflux_client_connect: the position after the check of
\* client->connected
connect_check_ignores_connected(c) == "socket"

connect_check(c) == IF c.connected THEN "done" ELSE "socket"

\* thread t goes on to position pc with result res, having made the system
\* calls sys
ThreadStep(t, pc, res, sys, peers) ==
    last' = [last EXCEPT !.sys = last.sys \o sys,
                         !.out = [last.out EXCEPT !.pc[t] = pc, !.res[t] = res,
                                                  !.peers = peers]]

\* the caller hands the client to two threads
ThreadsBegin ==
    /\ proc = "running" /\ client # NULL /\ ThreadsQuiet
    /\ Cardinality(Leaked) < MaxLeaked
    /\ last' = Call("connect_threads", [leaked |-> Leaked, sound |-> Sound], 0, <<>>, FALSE,
                    [pc |-> [t \in Threads |-> "idle"],
                     fd |-> [t \in Threads |-> -1],
                     res |-> [t \in Threads |-> 0],
                     peers |-> IF client.connected THEN {client.socket_fd} ELSE {},
                     overlap |-> FALSE])
    /\ UNCHANGED <<client, os_open, entries, proc>>

\* thread t calls logflux_client_connect(client)
ThreadCall(t) ==
    /\ proc = "running" /\ ThreadsIn /\ last.out.pc[t] = "idle"
    /\ last' = [last EXCEPT !.out.pc[t] = "check",
                            !.out.overlap = last.out.overlap
                                \/ last.out.pc[Other(t)] \notin {"idle", "done"}]
    /\ UNCHANGED <<client, os_open, entries, proc>>

\* if (client->connected) return LOGFLUX_OK
ThreadCheck(t) ==
    /\ proc = "running" /\ ThreadsIn /\ last.out.pc[t] = "check"
    /\ ThreadStep(t, connect_check(client), LOGFLUX_OK, <<>>, last.out.peers)
    /\ UNCHANGED <<client, os_open, entries, proc>>

\* client->socket_fd = socket(...)
ThreadSocket(t) ==
    /\ proc = "running" /\ ThreadsIn /\ last.out.pc[t] = "socket"
    /\ LET fd == NewFd(os_open)
           unix == client.config.connection_type = LOGFLUX_CONN_UNIX
       IN  /\ os_open' = os_open \cup {fd}
           /\ client' = [client EXCEPT !.socket_fd = fd]
           /\ last' = [last EXCEPT
                  !.sys = Append(last.sys,
                                 Ev(IF unix THEN "socket AF_UNIX" ELSE "socket AF_INET",
                                    -1, <<>>, fd)),
                  !.out = [last.out EXCEPT !.pc[t] = "timeout", !.fd[t] = fd]]
    /\ UNCHANGED <<entries, proc>>

\* set_socket_timeout(client->socket_fd, ...) and the check of the path
\* length; the setsockopt calls fail on a descriptor that is not open
ThreadTimeout(t, u) ==
    /\ proc = "running" /\ ThreadsIn /\ last.out.pc[t] = "timeout"
    /\ LET to == set_socket_timeout(u, client.config.timeout_ms,
                                    IF u \in os_open THEN "ok" ELSE "rcvtimeo")
       IN  IF to.result # LOGFLUX_OK
           THEN ThreadStep(t, "fail", LOGFLUX_ERROR_TIMEOUT, to.sys, last.out.peers)
           ELSE IF Len(client.config.socket_path) >= sun_path_size
           THEN ThreadStep(t, "fail", LOGFLUX_ERROR_INVALID_PARAM, to.sys, last.out.peers)
           ELSE ThreadStep(t, "connect", LOGFLUX_OK, to.sys, last.out.peers)
    /\ UNCHANGED <<client, os_open, entries, proc>>

\* connect(client->socket_fd, ...): succeeds on an open socket that is not
\* connected yet when the collector listens at the path
ThreadConnect(t, u) ==
    /\ proc = "running" /\ ThreadsIn /\ last.out.pc[t] = "connect"
    /\ LET ok == /\ u \in os_open /\ u \notin last.out.peers
                 /\ client.config.socket_path \in ListeningPaths
           ev == Ev("connect", u, client.config.socket_path, IF ok THEN 0 ELSE -1)
       IN  IF ok
           THEN ThreadStep(t, "mark", LOGFLUX_OK, <<ev>>, last.out.peers \cup {u})
           ELSE ThreadStep(t, "fail", LOGFLUX_ERROR_CONNECTION, <<ev>>, last.out.peers)
    /\ UNCHANGED <<client, os_open, entries, proc>>

\* close(client->socket_fd); client->socket_fd = -1; return the error
ThreadFail(t, u) ==
    /\ proc = "running" /\ ThreadsIn /\ last.out.pc[t] = "fail"
    /\ os_open' = os_open \ {u}
    /\ client' = [client EXCEPT !.socket_fd = -1]
    /\ ThreadStep(t, "done", last.out.res[t],
                  <<Ev("close", u, <<>>, IF u \in os_open THEN 0 ELSE -1)>>,
                  last.out.peers \ {u})
    /\ UNCHANGED <<entries, proc>>

\* client->connected = true; return LOGFLUX_OK
ThreadMark(t) ==
    /\ proc = "running" /\ ThreadsIn /\ last.out.pc[t] = "mark"
    /\ client' = [client EXCEPT !.connected = TRUE]
    /\ ThreadStep(t, "done", LOGFLUX_OK, <<>>, last.out.peers)
    /\ UNCHANGED <<os_open, entries, proc>>

NextThreads ==
    \/ \E p \in {Str(path_agent), Str(path_none), Str(path_108)} :
           ThreadsQuiet /\ Leaked = {} /\ NewUnix(p, TRUE)
    \/ \E env \in {"ok", "connect"} : ThreadsQuiet /\ Connect(env)
    \/ ThreadsQuiet /\ IsConnected
    \/ ThreadsQuiet /\ Close
    \/ ThreadsQuiet /\ Free
    \/ ThreadsBegin
    \/ \E t \in Threads : ThreadCall(t)
    \/ \E t \in Threads : ThreadCheck(t)
    \/ \E t \in Threads : ThreadSocket(t)
    \/ \E t \in Threads : \E u \in Uses(t) : ThreadTimeout(t, u)
    \/ \E t \in Threads : \E u \in Uses(t) : ThreadConnect(t, u)
    \/ \E t \in Threads : \E u \in Uses(t) : ThreadFail(t, u)
    \/ \E t \in Threads : ThreadMark(t)

SpecThreads == Init /\ [][NextThreads]_vars


\* both threads have returned from connect
C27_BothReturned == ThreadsIn /\ \A t \in Threads : last.out.pc[t] = "done"

\* C27: two connect calls on the same client that do not overlap leave no
\* socket open that the client does not record (none beyond those that
\* earlier overlapping calls had left), and a client that was sound before
\* them is sound after them; a socket that is open and not recorded
\* (which two overlapping calls can produce, see C27_Witness) is not closed
\* by close or by client_free.
C27_UnrecordedSocketOnlyByOverlap ==
    /\ []((ThreadsIn /\ ThreadsQuiet /\ ~last.out.overlap /\ last.arg.sound) =>
              /\ Leaked = last.arg.leaked
              /\ Sound)
    /\ [][last'.op \in {"close", "free"} =>
              /\ Leaked \subseteq os_open'
              /\ Leaked \subseteq Leaked']_vars

\* two overlapping connect calls on an Unconnected client both passed the
\* check, each created and connected a socket, both returned success, and one
\* of the two sockets is open and not recorded in the client
C27_Witness ==
    /\ C27_BothReturned /\ last.out.overlap
    /\ last.arg.leaked = {} /\ last.arg.sound
    /\ \A t \in Threads : last.out.res[t] = LOGFLUX_OK /\ last.out.fd[t] \in last.out.peers
    /\ last.out.fd[1] # last.out.fd[2]
    /\ client.connected
    /\ Cardinality(os_open) = 2
    /\ Cardinality(Leaked) = 1

=============================================================================
